---- MODULE Spec2Model ----
(***************************************************************************)
(* PyVenture: the hero's movement state machine (sprites.py Player/Hero),   *)
(* the command interpreter (game.py Game._handle_command and                *)
(* Game._execute_hero_command) and the progress tracker (game.py            *)
(* Game._update, _check_collections, _check_challenge, _reset_game).        *)
(*                                                                         *)
(* Text is modelled as a sequence of one-character strings, so that         *)
(* strip(), startswith(), the regular expression and the substring test    *)
(* of the source are computed character by character.  A glyph outside     *)
(* ASCII is one element named after the glyph (e.g. "ARROW_RIGHT").        *)
(*                                                                         *)
(* Rendering state (sprite images, particles, floating texts, the pulse    *)
(* and bob timers, dance_offset, eye_direction, the cursor blink) is not   *)
(* modelled: no handler reads it to decide anything.                       *)
(***************************************************************************)
EXTENDS Integers, Sequences, FiniteSets, TLC

(***************************************************************************)
(* settings.py                                                             *)
(***************************************************************************)
TILE_SIZE == 64
GRID_COLS == 12
GRID_ROWS == 9
GAME_AREA_X == 40
GAME_AREA_Y == 40
PLAYER_START_COL == 5
PLAYER_START_ROW == 4
PLAYER_MOVE_SPEED == 8
CONSOLE_MAX_HISTORY == 50

\* sprites.py Player.update: the literals 30 and 60 that end a spin and a dance.
SPIN_TICKS == 30
DANCE_TICKS == 60

(***************************************************************************)
(* Bounds of the model.                                                    *)
(***************************************************************************)
\* Spec: command lines handled since the last reset (commands_executed has no
\* bound in the source)
MaxCommands == 3

\* Spec: F5 arrives during a spin or a dance only within this many ticks of its start
MaxResetDelay == 2

\* SpecQuest: command lines handled since the last reset
MaxQuestCommands == 8

\* SpecParse: command lines handled since the last reset
MaxParseCommands == 2

\* SpecConsole: command lines handled since the last reset
MaxConsoleCommands == 2

\* The number of lines a learner submits while editing the input line with every key.
MaxKeyCommands == 2

\* The number of lines submitted while the command history fills up: two more than
\* the history holds.
MaxHistoryCommands == 52

(***************************************************************************)
(* Text literals of the source, character by character.                    *)
(***************************************************************************)
MSG_MOVING_RIGHT ==
    <<"M", "o", "v", "i", "n", "g", " ", "r", "i", "g", "h", "t", "!", " ", "ARROW_RIGHT">>
MSG_MOVING_LEFT ==
    <<"M", "o", "v", "i", "n", "g", " ", "l", "e", "f", "t", "!", " ", "ARROW_LEFT">>
MSG_MOVING_UP ==
    <<"M", "o", "v", "i", "n", "g", " ", "u", "p", "!", " ", "ARROW_UP">>
MSG_MOVING_DOWN ==
    <<"M", "o", "v", "i", "n", "g", " ", "d", "o", "w", "n", "!", " ", "ARROW_DOWN">>
MSG_STILL_MOVING ==
    <<"W", "a", "i", "t", "!", " ", "S", "t", "i", "l", "l", " ", "m", "o", "v", "i", "n",
    "g", ".", ".", ".">>
MSG_BUSY_PERFORMING ==
    <<"W", "a", "i", "t", "!", " ", "H", "e", "r", "o", " ", "i", "s", " ", "b", "u", "s",
    "y", " ", "p", "e", "r", "f", "o", "r", "m", "i", "n", "g", ".", ".", ".">>
MSG_BLOCKED_RIGHT ==
    <<"C", "a", "n", "'", "t", " ", "m", "o", "v", "e", " ", "r", "i", "g", "h", "t", " ",
    "-", " ", "b", "l", "o", "c", "k", "e", "d", "!">>
MSG_BLOCKED_LEFT ==
    <<"C", "a", "n", "'", "t", " ", "m", "o", "v", "e", " ", "l", "e", "f", "t", " ", "-",
    " ", "b", "l", "o", "c", "k", "e", "d", "!">>
MSG_BLOCKED_UP ==
    <<"C", "a", "n", "'", "t", " ", "m", "o", "v", "e", " ", "u", "p", " ", "-", " ", "b",
    "l", "o", "c", "k", "e", "d", "!">>
MSG_BLOCKED_DOWN ==
    <<"C", "a", "n", "'", "t", " ", "m", "o", "v", "e", " ", "d", "o", "w", "n", " ", "-",
    " ", "b", "l", "o", "c", "k", "e", "d", "!">>
MSG_SAY_PREFIX ==
    <<"H", "e", "r", "o", " ", "s", "a", "y", "s", ":", " ", "\"">>
MSG_SAY_SUFFIX ==
    <<"\"">>
MSG_SAY_DEFAULT ==
    <<"H", "e", "l", "l", "o", "!">>
MSG_SPIN ==
    <<"W", "h", "e", "e", "e", "e", "e", "!", " ", "EMOJI_CYCLONE">>
MSG_CANT_SPIN ==
    <<"C", "a", "n", "'", "t", " ", "s", "p", "i", "n", " ", "r", "i", "g", "h", "t", " ",
    "n", "o", "w", "!">>
MSG_DANCE ==
    <<"EMOJI_DANCER", " ", "D", "a", "n", "c", "i", "n", "g", "!", " ",
    "EMOJI_MAN_DANCING">>
MSG_CANT_DANCE ==
    <<"C", "a", "n", "'", "t", " ", "d", "a", "n", "c", "e", " ", "r", "i", "g", "h", "t",
    " ", "n", "o", "w", "!">>
MSG_JUMP ==
    <<"J", "u", "m", "p", "!", " ", "EMOJI_KANGAROO", " ", "(", "V", "i", "s", "u", "a",
    "l", " ", "c", "o", "m", "i", "n", "g", " ", "s", "o", "o", "n", ".", ".", ".", ")">>
MSG_ATTACK ==
    <<"A", "t", "t", "a", "c", "k", "!", " ", "EMOJI_SWORDS", "VARIATION_SELECTOR", " ",
    "(", "C", "o", "m", "b", "a", "t", " ", "c", "o", "m", "i", "n", "g", " ", "s", "o",
    "o", "n", ".", ".", ".", ")">>
MSG_DEFEND ==
    <<"D", "e", "f", "e", "n", "d", "!", " ", "EMOJI_SHIELD", "VARIATION_SELECTOR", " ",
    "(", "C", "o", "m", "b", "a", "t", " ", "c", "o", "m", "i", "n", "g", " ", "s", "o",
    "o", "n", ".", ".", ".", ")">>
MSG_COLLECT ==
    <<"L", "o", "o", "k", "i", "n", "g", " ", "f", "o", "r", " ", "i", "t", "e", "m", "s",
    ".", ".", ".", " ", "(", "U", "s", "e", " ", "a", "u", "t", "o", "-", "c", "o", "l",
    "l", "e", "c", "t", " ", "b", "y", " ", "w", "a", "l", "k", "i", "n", "g", "!", ")">>
TXT_MOVING ==
    <<"M", "o", "v", "i", "n", "g">>
TXT_HERO_DOT ==
    <<"h", "e", "r", "o", ".">>
TXT_HELP ==
    <<"h", "e", "l", "p">>
TXT_CLEAR ==
    <<"c", "l", "e", "a", "r">>
TXT_HINT ==
    <<"h", "i", "n", "t">>
TXT_TRUE ==
    <<"T", "r", "u", "e">>
TXT_FALSE ==
    <<"F", "a", "l", "s", "e">>
TXT_NONE ==
    <<"N", "o", "n", "e">>
TXT_EMPTY_CALL ==
    <<"(", ")">>

(***************************************************************************)
(* Text helpers: Python's str operations on character sequences.           *)
(***************************************************************************)
WHITESPACE == {" ", "\t"}

RECURSIVE lstrip(_)
lstrip(s) ==
    IF s # <<>> /\ Head(s) \in WHITESPACE THEN lstrip(Tail(s)) ELSE s

RECURSIVE rstrip(_)
rstrip(s) ==
    IF s # <<>> /\ s[Len(s)] \in WHITESPACE THEN rstrip(SubSeq(s, 1, Len(s) - 1)) ELSE s

\* str.strip()
strip(s) == rstrip(lstrip(s))

\* str.startswith(prefix)
startswith(s, prefix) ==
    Len(s) >= Len(prefix) /\ SubSeq(s, 1, Len(prefix)) = prefix

\* str.endswith(suffix)
endswith(s, suffix) ==
    Len(s) >= Len(suffix) /\ SubSeq(s, Len(s) - Len(suffix) + 1, Len(s)) = suffix

\* the operator "needle in haystack" on strings
contains(haystack, needle) ==
    \E i \in 1..(Len(haystack) - Len(needle) + 1) :
        SubSeq(haystack, i, i + Len(needle) - 1) = needle

(***************************************************************************)
(* The level: game.py Game._create_obstacles, _create_collectibles,        *)
(* _create_challenges and sprites.py Collectible.GEM_VALUES.               *)
(***************************************************************************)
\* A faulty level: two more rocks close the corner (11, 8).
obstacle_positions_walled ==
    << <<2, 2, "rock">>, <<2, 3, "rock">>, <<3, 6, "crate">>, <<4, 6, "crate">>,
       <<7, 2, "bush">>, <<8, 2, "bush">>, <<9, 5, "rock">>, <<10, 5, "rock">>,
       <<6, 4, "crate">>, <<11, 7, "rock">>, <<10, 8, "rock">> >>

obstacle_positions ==
    << <<2, 2, "rock">>, <<2, 3, "rock">>, <<3, 6, "crate">>, <<4, 6, "crate">>,
       <<7, 2, "bush">>, <<8, 2, "bush">>, <<9, 5, "rock">>, <<10, 5, "rock">>,
       <<6, 4, "crate">> >>

\* Game._create_obstacles: one Obstacle per entry, in order
_create_obstacles ==
    [i \in 1..Len(obstacle_positions) |->
        [grid_col |-> obstacle_positions[i][1],
         grid_row |-> obstacle_positions[i][2],
         obstacle_type |-> obstacle_positions[i][3]]]

GEM_VALUES ==
    [ruby |-> 10, emerald |-> 15, sapphire |-> 20, gold |-> 25, diamond |-> 50]

gem_positions ==
    << <<1, 1, "ruby">>, <<10, 1, "sapphire">>, <<0, 7, "emerald">>, <<11, 8, "gold">>,
       <<6, 7, "diamond">>, <<3, 3, "ruby">>, <<8, 5, "emerald">> >>

\* Collectible.__init__
Collectible(col, row, gem_type) ==
    [grid_col |-> col, grid_row |-> row, gem_type |-> gem_type,
     value |-> GEM_VALUES[gem_type], collected |-> FALSE]

RECURSIVE place_gems(_, _)
place_gems(positions, blocked_positions) ==
    IF positions = <<>> THEN <<>>
    ELSE LET g == Head(positions)
             rest == place_gems(Tail(positions), blocked_positions)
         IN  IF <<g[1], g[2]>> \notin blocked_positions
             THEN <<Collectible(g[1], g[2], g[3])>> \o rest
             ELSE rest

\* Game._create_collectibles: the gems whose cell is neither an obstacle nor (5, 4)
_create_collectibles(obstacles) ==
    LET blocked_positions ==
            {<<obstacles[i].grid_col, obstacles[i].grid_row>> : i \in 1..Len(obstacles)}
                \cup {<<5, 4>>}
    IN  place_gems(gem_positions, blocked_positions)

\* Challenge.__init__ / Game._create_challenges
Challenge(title, description, target_col, target_row, reward) ==
    [title |-> title, description |-> description,
     target_col |-> target_col, target_row |-> target_row,
     reward |-> reward, completed |-> FALSE]

_create_challenges ==
    << Challenge("First Steps", "Move to the ruby gem at (1, 1)!", 1, 1, 25),
       Challenge("Adventure Awaits", "Find the diamond at (6, 7)!", 6, 7, 50),
       Challenge("Explorer", "Reach the corner at (11, 8)!", 11, 8, 75) >>

(***************************************************************************)
(* sprites.py Player                                                       *)
(***************************************************************************)
_grid_to_pixel_x(col) == GAME_AREA_X + col * TILE_SIZE + TILE_SIZE \div 2

_grid_to_pixel_y(row) == GAME_AREA_Y + row * TILE_SIZE + TILE_SIZE \div 2

\* Player.__init__(col, row)
Player(col, row) ==
    [grid_col |-> col, grid_row |-> row,
     x |-> _grid_to_pixel_x(col), y |-> _grid_to_pixel_y(row),
     target_x |-> _grid_to_pixel_x(col), target_y |-> _grid_to_pixel_y(row),
     is_moving |-> FALSE, direction |-> "NONE", move_speed |-> PLAYER_MOVE_SPEED,
     is_spinning |-> FALSE, spin_timer |-> 0,
     is_dancing |-> FALSE, dance_timer |-> 0]

\* A faulty _is_blocked: the last obstacle of the list is never looked at.
_is_blocked_skips_last(obstacles, col, row) ==
    \E i \in 1..(Len(obstacles) - 1) :
        obstacles[i].grid_col = col /\ obstacles[i].grid_row = row

\* Player._is_blocked: some obstacle of the list lies on (col, row)
_is_blocked(obstacles, col, row) ==
    \E i \in 1..Len(obstacles) :
        obstacles[i].grid_col = col /\ obstacles[i].grid_row = row

\* A faulty _try_move: the move starts but the logical cell is left for the
\* animation to update.
_try_move_deferred(p, obstacles, dx, dy, direction) ==
    IF p.is_moving \/ p.is_spinning \/ p.is_dancing
    THEN [ok |-> FALSE, player |-> p]
    ELSE LET new_col == p.grid_col + dx
             new_row == p.grid_row + dy
         IN  IF ~(0 <= new_col /\ new_col < GRID_COLS /\ 0 <= new_row /\ new_row < GRID_ROWS)
             THEN [ok |-> FALSE, player |-> p]
             ELSE IF _is_blocked(obstacles, new_col, new_row)
             THEN [ok |-> FALSE, player |-> p]
             ELSE [ok |-> TRUE,
                   player |-> [p EXCEPT !.target_x = _grid_to_pixel_x(new_col),
                                        !.target_y = _grid_to_pixel_y(new_row),
                                        !.direction = direction,
                                        !.is_moving = TRUE]]

\* A faulty _try_move: only a move in progress makes the hero busy, a spin or a
\* dance does not.
_try_move_while_performing(p, obstacles, dx, dy, direction) ==
    IF p.is_moving
    THEN [ok |-> FALSE, player |-> p]
    ELSE LET new_col == p.grid_col + dx
             new_row == p.grid_row + dy
         IN  IF ~(0 <= new_col /\ new_col < GRID_COLS /\ 0 <= new_row /\ new_row < GRID_ROWS)
             THEN [ok |-> FALSE, player |-> p]
             ELSE IF _is_blocked(obstacles, new_col, new_row)
             THEN [ok |-> FALSE, player |-> p]
             ELSE [ok |-> TRUE,
                   player |-> [p EXCEPT !.grid_col = new_col,
                                        !.grid_row = new_row,
                                        !.target_x = _grid_to_pixel_x(new_col),
                                        !.target_y = _grid_to_pixel_y(new_row),
                                        !.direction = direction,
                                        !.is_moving = TRUE]]

\* A faulty _try_move: the boundary test admits the row and the column one past
\* the board.
_try_move_off_by_one(p, obstacles, dx, dy, direction) ==
    IF p.is_moving \/ p.is_spinning \/ p.is_dancing
    THEN [ok |-> FALSE, player |-> p]
    ELSE LET new_col == p.grid_col + dx
             new_row == p.grid_row + dy
         IN  IF ~(0 <= new_col /\ new_col <= GRID_COLS /\ 0 <= new_row /\ new_row <= GRID_ROWS)
             THEN [ok |-> FALSE, player |-> p]
             ELSE IF _is_blocked(obstacles, new_col, new_row)
             THEN [ok |-> FALSE, player |-> p]
             ELSE [ok |-> TRUE,
                   player |-> [p EXCEPT !.grid_col = new_col,
                                        !.grid_row = new_row,
                                        !.target_x = _grid_to_pixel_x(new_col),
                                        !.target_y = _grid_to_pixel_y(new_row),
                                        !.direction = direction,
                                        !.is_moving = TRUE]]

\* A faulty _try_move: a move in progress does not refuse the next one.
_try_move_while_moving(p, obstacles, dx, dy, direction) ==
    IF p.is_spinning \/ p.is_dancing
    THEN [ok |-> FALSE, player |-> p]
    ELSE LET new_col == p.grid_col + dx
             new_row == p.grid_row + dy
         IN  IF ~(0 <= new_col /\ new_col < GRID_COLS /\ 0 <= new_row /\ new_row < GRID_ROWS)
             THEN [ok |-> FALSE, player |-> p]
             ELSE IF _is_blocked(obstacles, new_col, new_row)
             THEN [ok |-> FALSE, player |-> p]
             ELSE [ok |-> TRUE,
                   player |-> [p EXCEPT !.grid_col = new_col,
                                        !.grid_row = new_row,
                                        !.target_x = _grid_to_pixel_x(new_col),
                                        !.target_y = _grid_to_pixel_y(new_row),
                                        !.direction = direction,
                                        !.is_moving = TRUE]]

\* Player._try_move: [ok |-> the returned bool, player |-> the player afterwards]
_try_move(p, obstacles, dx, dy, direction) ==
    IF p.is_moving \/ p.is_spinning \/ p.is_dancing
    THEN [ok |-> FALSE, player |-> p]
    ELSE LET new_col == p.grid_col + dx
             new_row == p.grid_row + dy
         IN  IF ~(0 <= new_col /\ new_col < GRID_COLS /\ 0 <= new_row /\ new_row < GRID_ROWS)
             THEN [ok |-> FALSE, player |-> p]
             ELSE IF _is_blocked(obstacles, new_col, new_row)
             THEN [ok |-> FALSE, player |-> p]
             ELSE [ok |-> TRUE,
                   player |-> [p EXCEPT !.grid_col = new_col,
                                        !.grid_row = new_row,
                                        !.target_x = _grid_to_pixel_x(new_col),
                                        !.target_y = _grid_to_pixel_y(new_row),
                                        !.direction = direction,
                                        !.is_moving = TRUE]]

Player_move_right(p, obstacles) == _try_move(p, obstacles, 1, 0, "RIGHT")

Player_move_left(p, obstacles) == _try_move(p, obstacles, -1, 0, "LEFT")

Player_move_up(p, obstacles) == _try_move(p, obstacles, 0, -1, "UP")

Player_move_down(p, obstacles) == _try_move(p, obstacles, 0, 1, "DOWN")

\* A faulty spin: a dance in progress does not refuse it.
Player_spin_over_dance(p) ==
    IF p.is_moving \/ p.is_spinning
    THEN [ok |-> FALSE, player |-> p]
    ELSE [ok |-> TRUE, player |-> [p EXCEPT !.is_spinning = TRUE, !.spin_timer = 0]]

\* A faulty spin: the timer is left at the value the last spin stopped at.
Player_spin_keeps_timer(p) ==
    IF p.is_moving \/ p.is_spinning \/ p.is_dancing
    THEN [ok |-> FALSE, player |-> p]
    ELSE [ok |-> TRUE, player |-> [p EXCEPT !.is_spinning = TRUE]]

\* Player.spin
Player_spin(p) ==
    IF p.is_moving \/ p.is_spinning \/ p.is_dancing
    THEN [ok |-> FALSE, player |-> p]
    ELSE [ok |-> TRUE, player |-> [p EXCEPT !.is_spinning = TRUE, !.spin_timer = 0]]

\* Player.dance
Player_dance(p) ==
    IF p.is_moving \/ p.is_spinning \/ p.is_dancing
    THEN [ok |-> FALSE, player |-> p]
    ELSE [ok |-> TRUE, player |-> [p EXCEPT !.is_dancing = TRUE, !.dance_timer = 0]]

Sign(n) == IF n > 0 THEN 1 ELSE IF n < 0 THEN -1 ELSE 0

Abs(n) == IF n < 0 THEN -n ELSE n

\* floor of the square root of n, searched between lo and hi
RECURSIVE isqrt_between(_, _, _)
isqrt_between(n, lo, hi) ==
    IF lo >= hi THEN lo
    ELSE LET mid == (lo + hi + 1) \div 2
         IN  IF mid * mid <= n THEN isqrt_between(n, mid, hi)
             ELSE isqrt_between(n, lo, mid - 1)

\* (dx ** 2 + dy ** 2) ** 0.5: exact on an axis, the integer part off the axes
vector_length(dx, dy) ==
    IF dy = 0 THEN Abs(dx)
    ELSE IF dx = 0 THEN Abs(dy)
    ELSE isqrt_between(dx * dx + dy * dy, 0, Abs(dx) + Abs(dy))

\* A faulty update: the step towards the target is one pixel short.
update_moving_short_step(p) ==
    IF ~p.is_moving THEN p
    ELSE LET dx == p.target_x - p.x
             dy == p.target_y - p.y
         IN  IF dx * dx + dy * dy < p.move_speed * p.move_speed
             THEN [p EXCEPT !.x = p.target_x, !.y = p.target_y,
                            !.is_moving = FALSE, !.direction = "NONE"]
             ELSE [p EXCEPT !.x = p.x + Sign(dx) * (p.move_speed - 1),
                            !.y = p.y + Sign(dy) * (p.move_speed - 1)]

\* Player.update, the movement part.  distance < move_speed is decided on the
\* squares.  (dx / distance) * move_speed is exact when the vector to the target
\* lies on one axis, the only case a move produces.
update_moving(p) ==
    IF ~p.is_moving THEN p
    ELSE LET dx == p.target_x - p.x
             dy == p.target_y - p.y
         IN  IF dx * dx + dy * dy < p.move_speed * p.move_speed
             THEN [p EXCEPT !.x = p.target_x, !.y = p.target_y,
                            !.is_moving = FALSE, !.direction = "NONE"]
             ELSE LET distance == vector_length(dx, dy)
                  IN  [p EXCEPT !.x = p.x + Sign(dx) * ((Abs(dx) * p.move_speed) \div distance),
                                !.y = p.y + Sign(dy) * ((Abs(dy) * p.move_speed) \div distance)]

\* Player.update, the spin part
update_spinning(p) ==
    IF ~p.is_spinning THEN p
    ELSE IF p.spin_timer + 1 >= SPIN_TICKS
         THEN [p EXCEPT !.is_spinning = FALSE, !.spin_timer = 0]
         ELSE [p EXCEPT !.spin_timer = p.spin_timer + 1]

\* A faulty update: the dance timer stands still.
update_dancing_stuck(p) == p

\* Player.update, the dance part
update_dancing(p) ==
    IF ~p.is_dancing THEN p
    ELSE IF p.dance_timer + 1 >= DANCE_TICKS
         THEN [p EXCEPT !.is_dancing = FALSE, !.dance_timer = 0]
         ELSE [p EXCEPT !.dance_timer = p.dance_timer + 1]

\* Player.update: movement, then spin, then dance
Player_update(p) == update_dancing(update_spinning(update_moving(p)))

\* A faulty reset_position: the target of the last move is left in place.
reset_position_keeps_target(p) ==
    [p EXCEPT !.grid_col = PLAYER_START_COL,
              !.grid_row = PLAYER_START_ROW,
              !.x = _grid_to_pixel_x(PLAYER_START_COL),
              !.y = _grid_to_pixel_y(PLAYER_START_ROW),
              !.is_moving = FALSE,
              !.is_spinning = FALSE,
              !.is_dancing = FALSE,
              !.direction = "NONE"]

\* Player.reset_position: the timers are not among the fields it assigns
\* A faulty reset_position: the move in progress is left running.
reset_position_keeps_moving(p) ==
    [p EXCEPT !.grid_col = PLAYER_START_COL,
              !.grid_row = PLAYER_START_ROW,
              !.x = _grid_to_pixel_x(PLAYER_START_COL),
              !.y = _grid_to_pixel_y(PLAYER_START_ROW),
              !.is_spinning = FALSE,
              !.is_dancing = FALSE,
              !.direction = "NONE"]

reset_position(p) ==
    [p EXCEPT !.grid_col = PLAYER_START_COL,
              !.grid_row = PLAYER_START_ROW,
              !.x = _grid_to_pixel_x(PLAYER_START_COL),
              !.y = _grid_to_pixel_y(PLAYER_START_ROW),
              !.target_x = _grid_to_pixel_x(PLAYER_START_COL),
              !.target_y = _grid_to_pixel_y(PLAYER_START_ROW),
              !.is_moving = FALSE,
              !.is_spinning = FALSE,
              !.is_dancing = FALSE,
              !.direction = "NONE"]

(***************************************************************************)
(* settings.py VALID_HERO_METHODS and METHOD_SUGGESTIONS                    *)
(***************************************************************************)
M_move_right == <<"m", "o", "v", "e", "_", "r", "i", "g", "h", "t">>

M_move_left == <<"m", "o", "v", "e", "_", "l", "e", "f", "t">>

M_move_up == <<"m", "o", "v", "e", "_", "u", "p">>

M_move_down == <<"m", "o", "v", "e", "_", "d", "o", "w", "n">>

M_jump == <<"j", "u", "m", "p">>

M_attack == <<"a", "t", "t", "a", "c", "k">>

M_defend == <<"d", "e", "f", "e", "n", "d">>

M_say == <<"s", "a", "y">>

M_spin == <<"s", "p", "i", "n">>

M_dance == <<"d", "a", "n", "c", "e">>

M_collect == <<"c", "o", "l", "l", "e", "c", "t">>

VALID_HERO_METHODS ==
    << M_move_right,
       M_move_left,
       M_move_up,
       M_move_down,
       M_jump,
       M_attack,
       M_defend,
       M_say,
       M_spin,
       M_dance,
       M_collect >>

\* the dict as a sequence of <<key, value>> pairs, in the order of the source
METHOD_SUGGESTIONS ==
    << << <<"m", "o", "v", "e", "r", "i", "g", "h", "t">>, M_move_right >>,
       << <<"m", "o", "v", "e", "l", "e", "f", "t">>, M_move_left >>,
       << <<"m", "o", "v", "e", "u", "p">>, M_move_up >>,
       << <<"m", "o", "v", "e", "d", "o", "w", "n">>, M_move_down >>,
       << <<"m", "o", "v", "e", "_", "r", "i", "g", "t", "h">>, M_move_right >>,
       << <<"m", "o", "v", "e", "_", "r", "i", "g", "t">>, M_move_right >>,
       << <<"m", "o", "v", "e", "_", "l", "e", "f", "t", "t">>, M_move_left >>,
       << <<"m", "o", "v", "e", "_", "u">>, M_move_up >>,
       << <<"m", "o", "v", "e", "_", "d">>, M_move_down >>,
       << <<"r", "i", "g", "h", "t">>, M_move_right >>,
       << <<"l", "e", "f", "t">>, M_move_left >>,
       << <<"u", "p">>, M_move_up >>,
       << <<"d", "o", "w", "n">>, M_move_down >>,
       << <<"s", "p", "i", "n", "n">>, M_spin >>,
       << <<"d", "a", "n", "s">>, M_dance >>,
       << <<"d", "a", "n", "s", "c", "e">>, M_dance >> >>

(***************************************************************************)
(* sprites.py Hero: each method returns the message it stores in            *)
(* _last_command_result; [result |-> the message, player |-> the player     *)
(* afterwards].                                                            *)
(***************************************************************************)
\* the shared body of Hero.move_right/move_left/move_up/move_down
Hero_move(moved, moving_msg, blocked_msg) ==
    IF moved.ok
    THEN [result |-> moving_msg, player |-> moved.player]
    ELSE [result |-> IF moved.player.is_moving THEN MSG_STILL_MOVING
                     ELSE IF moved.player.is_spinning \/ moved.player.is_dancing
                          THEN MSG_BUSY_PERFORMING
                          ELSE blocked_msg,
          player |-> moved.player]

Hero_move_right(p, obstacles) ==
    Hero_move(Player_move_right(p, obstacles), MSG_MOVING_RIGHT, MSG_BLOCKED_RIGHT)

Hero_move_left(p, obstacles) ==
    Hero_move(Player_move_left(p, obstacles), MSG_MOVING_LEFT, MSG_BLOCKED_LEFT)

Hero_move_up(p, obstacles) ==
    Hero_move(Player_move_up(p, obstacles), MSG_MOVING_UP, MSG_BLOCKED_UP)

Hero_move_down(p, obstacles) ==
    Hero_move(Player_move_down(p, obstacles), MSG_MOVING_DOWN, MSG_BLOCKED_DOWN)

\* A faulty Hero.say: a busy hero does not speak.
Hero_say_when_idle(p, message) ==
    IF p.is_moving \/ p.is_spinning \/ p.is_dancing
    THEN [result |-> MSG_BUSY_PERFORMING, player |-> p]
    ELSE [result |-> MSG_SAY_PREFIX \o message \o MSG_SAY_SUFFIX, player |-> p]

\* Hero.say(message)
Hero_say(p, message) ==
    [result |-> MSG_SAY_PREFIX \o message \o MSG_SAY_SUFFIX, player |-> p]

\* Hero.spin
Hero_spin(p) ==
    LET spun == Player_spin(p)
    IN  [result |-> IF spun.ok THEN MSG_SPIN ELSE MSG_CANT_SPIN, player |-> spun.player]

\* Hero.dance
Hero_dance(p) ==
    LET danced == Player_dance(p)
    IN  [result |-> IF danced.ok THEN MSG_DANCE ELSE MSG_CANT_DANCE, player |-> danced.player]

Hero_jump(p) == [result |-> MSG_JUMP, player |-> p]

Hero_attack(p) == [result |-> MSG_ATTACK, player |-> p]

Hero_defend(p) == [result |-> MSG_DEFEND, player |-> p]

Hero_collect(p) == [result |-> MSG_COLLECT, player |-> p]

\* method(): the bound method called with no argument
call_method(method_name, p, obstacles) ==
    CASE method_name = M_move_right -> Hero_move_right(p, obstacles)
      [] method_name = M_move_left  -> Hero_move_left(p, obstacles)
      [] method_name = M_move_up    -> Hero_move_up(p, obstacles)
      [] method_name = M_move_down  -> Hero_move_down(p, obstacles)
      [] method_name = M_say        -> Hero_say(p, MSG_SAY_DEFAULT)
      [] method_name = M_spin       -> Hero_spin(p)
      [] method_name = M_dance      -> Hero_dance(p)
      [] method_name = M_jump       -> Hero_jump(p)
      [] method_name = M_attack     -> Hero_attack(p)
      [] method_name = M_defend     -> Hero_defend(p)
      [] method_name = M_collect    -> Hero_collect(p)

\* the names of the methods Hero defines (hasattr)
HERO_ATTRIBUTES ==
    {M_move_right, M_move_left, M_move_up, M_move_down, M_say, M_spin, M_dance,
     M_jump, M_attack, M_defend, M_collect}

\* the methods that accept one positional argument besides self
takes_argument(method_name) == method_name = M_say

(***************************************************************************)
(* game.py Game._execute_hero_command                                      *)
(***************************************************************************)
LOWER_LETTERS ==
    {"a", "b", "c", "d", "e", "f", "g", "h", "i", "j", "k", "l", "m", "n", "o", "p", "q",
     "r", "s", "t", "u", "v", "w", "x", "y", "z"}

UPPER_LETTERS ==
    {"A", "B", "C", "D", "E", "F", "G", "H", "I", "J", "K", "L", "M", "N", "O", "P", "Q",
     "R", "S", "T", "U", "V", "W", "X", "Y", "Z"}

DIGITS == {"0", "1", "2", "3", "4", "5", "6", "7", "8", "9"}

\* the class \w of the regular expression, on the characters the inputs use
WORD_CHARS == LOWER_LETTERS \cup UPPER_LETTERS \cup DIGITS \cup {"_"}

\* the length of the longest prefix of s made of \w characters
RECURSIVE word_prefix_len(_)
word_prefix_len(s) ==
    IF s # <<>> /\ Head(s) \in WORD_CHARS THEN 1 + word_prefix_len(Tail(s)) ELSE 0

\* re.match(r'^hero\.(\w+)\((.*)\)$', command): \w+ is greedy and what follows it
\* must be "(", so group 1 is the longest \w prefix; .* is greedy and must be
\* followed by ")" at the end, so group 2 is all that lies between the first "("
\* and the final ")"; "." matches no newline.
re_match(command) ==
    IF ~startswith(command, TXT_HERO_DOT) THEN [matched |-> FALSE]
    ELSE LET rest == SubSeq(command, Len(TXT_HERO_DOT) + 1, Len(command))
             n == word_prefix_len(rest)
         IN  IF /\ n >= 1
                /\ Len(rest) >= n + 2
                /\ rest[n + 1] = "("
                /\ rest[Len(rest)] = ")"
                /\ \A i \in (n + 2)..(Len(rest) - 1) : rest[i] # "\n"
             THEN [matched |-> TRUE,
                   group1 |-> SubSeq(rest, 1, n),
                   group2 |-> SubSeq(rest, n + 2, Len(rest) - 1)]
             ELSE [matched |-> FALSE]

\* x in list
in_list(x, list) == \E i \in 1..Len(list) : list[i] = x

\* decimal digits of a natural number, for the f-strings
RECURSIVE str_of_int(_)
str_of_int(n) ==
    LET digit == <<"0", "1", "2", "3", "4", "5", "6", "7", "8", "9">>[(n % 10) + 1]
    IN  IF n < 10 THEN <<digit>> ELSE str_of_int(n \div 10) \o <<digit>>

\* int() of a string of decimal digits
RECURSIVE int_of_str(_)
int_of_str(s) ==
    IF s = <<>> THEN 0
    ELSE LET d == CHOOSE k \in 0..9 : str_of_int(k) = <<s[Len(s)]>>
         IN  int_of_str(SubSeq(s, 1, Len(s) - 1)) * 10 + d

\* a decimal integer literal of Python 3: digits with no leading zero, or zeros only
is_int_literal(s) ==
    /\ s # <<>>
    /\ \A i \in 1..Len(s) : s[i] \in DIGITS
    /\ (s[1] # "0" \/ \A i \in 1..Len(s) : s[i] = "0")

TXT_SELF_HERO_DOT ==
    <<"s", "e", "l", "f", ".", "h", "e", "r", "o", ".">>

\* eval of an operand, in the frame of _execute_hero_command (its locals hold self):
\* an integer literal, True, False, None, or a call self.hero.<method>() of a Hero
\* method, which acts on the player; any other operand the inputs use is a name that
\* is not defined and raises.  [raised, type, int, str, player]
eval_atom(text, p, obstacles) ==
    LET value(type, int, str, q) ==
            [raised |-> FALSE, type |-> type, int |-> int, str |-> str, player |-> q]
        method_name == SubSeq(text, Len(TXT_SELF_HERO_DOT) + 1, Len(text) - Len(TXT_EMPTY_CALL))
    IN  IF is_int_literal(text) THEN value("int", int_of_str(text), <<>>, p)
        ELSE IF text = TXT_TRUE THEN value("bool", 1, <<>>, p)
        ELSE IF text = TXT_FALSE THEN value("bool", 0, <<>>, p)
        ELSE IF text = TXT_NONE THEN value("NoneType", 0, <<>>, p)
        ELSE IF /\ startswith(text, TXT_SELF_HERO_DOT)
                /\ endswith(text, TXT_EMPTY_CALL)
                /\ Len(text) > Len(TXT_SELF_HERO_DOT) + Len(TXT_EMPTY_CALL)
                /\ method_name \in HERO_ATTRIBUTES
        THEN LET returned(called) == value("str", 0, called.result, called.player)
             IN  returned(call_method(method_name, p, obstacles))
        ELSE [raised |-> TRUE, type |-> "", int |-> 0, str |-> <<>>, player |-> p]

\* eval of operand + operand + ..., left to right: int and bool add as numbers, str
\* and str concatenate, any other pair raises TypeError after both sides were evaluated
RECURSIVE eval_sum(_, _, _)
eval_sum(text, p, obstacles) ==
    LET plus == {i \in 1..Len(text) : text[i] = "+"}
        raise(q) == [raised |-> TRUE, type |-> "", int |-> 0, str |-> <<>>, player |-> q]
        add(left, right) ==
            IF right.raised THEN right
            ELSE IF left.type \in {"int", "bool"} /\ right.type \in {"int", "bool"}
            THEN [raised |-> FALSE, type |-> "int", int |-> left.int + right.int,
                  str |-> <<>>, player |-> right.player]
            ELSE IF left.type = "str" /\ right.type = "str"
            THEN [raised |-> FALSE, type |-> "str", int |-> 0,
                  str |-> left.str \o right.str, player |-> right.player]
            ELSE raise(right.player)
        then_right(left, operand) ==
            IF left.raised THEN left
            ELSE add(left, eval_atom(strip(operand), left.player, obstacles))
        split(k) ==
            then_right(eval_sum(SubSeq(text, 1, k - 1), p, obstacles),
                       SubSeq(text, k + 1, Len(text)))
    IN  IF plus = {} THEN eval_atom(strip(text), p, obstacles)
        ELSE split(CHOOSE i \in plus : \A j \in plus : j <= i)

\* eval(args_str) followed by str() of the value, as the f-string of Hero.say takes it:
\* [raised, str, player]
py_eval(args_str, p, obstacles) ==
    LET str_of(value) ==
            IF value.raised THEN [raised |-> TRUE, str |-> <<>>, player |-> value.player]
            ELSE [raised |-> FALSE,
                  str |-> CASE value.type = "int" -> str_of_int(value.int)
                            [] value.type = "bool" ->
                                   IF value.int = 1 THEN TXT_TRUE ELSE TXT_FALSE
                            [] value.type = "NoneType" -> TXT_NONE
                            [] value.type = "str" -> value.str,
                  player |-> value.player]
    IN  str_of(eval_sum(args_str, p, obstacles))

\* method(arg): a TypeError unless the method takes an argument
call_method_with(method_name, arg, p) ==
    IF takes_argument(method_name)
    THEN [raised |-> "none"] @@ Hero_say(p, arg)
    ELSE [raised |-> "TypeError", result |-> <<>>, player |-> p]

\* A faulty _execute_hero_command: the regular expression is matched before the
\* prefix is looked at.
parse_command_grammar_first(command) ==
    LET raise(exc) == [raised |-> exc, method_name |-> <<>>, has_arg |-> FALSE,
                       arg |-> <<>>, in_try |-> FALSE]
        call(method_name, has_arg, arg, in_try) ==
            [raised |-> "none", method_name |-> method_name, has_arg |-> has_arg,
             arg |-> arg, in_try |-> in_try]
        match == re_match(command)
    IN  IF command = <<>> THEN raise("none")
        ELSE IF ~match.matched THEN raise("SyntaxError")
        ELSE IF ~startswith(command, TXT_HERO_DOT) THEN raise("NameError")
        ELSE LET method_name == match.group1
                 args_str == strip(match.group2)
             IN  IF ~in_list(method_name, VALID_HERO_METHODS) THEN raise("AttributeError")
                 ELSE IF args_str # <<>>
                 THEN IF (startswith(args_str, <<"\"">>) /\ endswith(args_str, <<"\"">>))
                         \/ (startswith(args_str, <<"'">>) /\ endswith(args_str, <<"'">>))
                      THEN call(method_name, TRUE, SubSeq(args_str, 2, Len(args_str) - 1), FALSE)
                      ELSE call(method_name, TRUE, args_str, TRUE)
                 ELSE call(method_name, FALSE, <<>>, FALSE)

\* Game._execute_hero_command up to the call of the method, which is all it does
\* with the text alone: the exception it raises, or the call it is about to make.
\* in_try tells whether the call stands inside the try block around eval.
parse_command(command) ==
    LET raise(exc) == [raised |-> exc, method_name |-> <<>>, has_arg |-> FALSE,
                       arg |-> <<>>, in_try |-> FALSE]
        call(method_name, has_arg, arg, in_try) ==
            [raised |-> "none", method_name |-> method_name, has_arg |-> has_arg,
             arg |-> arg, in_try |-> in_try]
        match == re_match(command)
    IN  IF command = <<>> THEN raise("none")
        ELSE IF ~startswith(command, TXT_HERO_DOT) THEN raise("NameError")
        ELSE IF ~match.matched THEN raise("SyntaxError")
        ELSE LET method_name == match.group1
                 args_str == strip(match.group2)
                 valid_methods == VALID_HERO_METHODS \o <<M_spin, M_dance, M_collect>>
             IN  IF ~in_list(method_name, valid_methods) THEN raise("AttributeError")
                 ELSE IF method_name \notin HERO_ATTRIBUTES THEN raise("AttributeError")
                 ELSE IF args_str # <<>>
                 THEN IF startswith(args_str, <<"\"">>) /\ endswith(args_str, <<"\"">>)
                      THEN call(method_name, TRUE, SubSeq(args_str, 2, Len(args_str) - 1), FALSE)
                      ELSE IF startswith(args_str, <<"'">>) /\ endswith(args_str, <<"'">>)
                      THEN call(method_name, TRUE, SubSeq(args_str, 2, Len(args_str) - 1), FALSE)
                      ELSE call(method_name, TRUE, args_str, TRUE)
                 ELSE call(method_name, FALSE, <<>>, FALSE)

\* Game._execute_hero_command, from the parsed text on:
\* [raised |-> the exception that leaves it or "none", result, player]
_execute_hero_command(parsed, p, obstacles) ==
    IF parsed.raised # "none" \/ parsed.method_name = <<>>
    THEN [raised |-> parsed.raised, result |-> <<>>, player |-> p]
    ELSE IF parsed.has_arg /\ parsed.in_try
    THEN LET call_with(value) ==
                 LET called == call_method_with(parsed.method_name, value.str, value.player)
                 IN  IF value.raised \/ called.raised # "none"
                     THEN [raised |-> "SyntaxError", result |-> <<>>, player |-> value.player]
                     ELSE called
         IN  call_with(py_eval(parsed.arg, p, obstacles))
    ELSE IF parsed.has_arg
    THEN call_method_with(parsed.method_name, parsed.arg, p)
    ELSE [raised |-> "none"] @@ call_method(parsed.method_name, p, obstacles)

(***************************************************************************)
(* ui.py Console, the output side.  A line of the log is                   *)
(* [line_type, text]; the text of a fixed line is written as one element,  *)
(* a hero's message is spliced in character by character.                  *)
(***************************************************************************)
OutputLine(text, line_type) == [line_type |-> line_type, text |-> text]

\* Console.add_output(text) with the default line type
add_output(text) == OutputLine(text, "normal")

\* Console.add_success
add_success(text) == OutputLine(<<"CHECK_MARK", " ">> \o text, "success")

\* Console.add_error
add_error(text) == OutputLine(<<"BALLOT_X", " ">> \o text, "error")

\* Console.add_info
add_info(text) == OutputLine(<<"INFORMATION_SOURCE", " ">> \o text, "info")

\* Console._add_welcome_message
_add_welcome_message ==
    << add_output(<<"BOX_TOP">>),
       add_output(<<"BOX_LEFT", "   Welcome to PyVenture Console!     ", "BOX_RIGHT">>),
       add_output(<<"BOX_BOTTOM">>),
       add_output(<<>>),
       add_output(<<"Control the hero with Python commands:">>),
       add_output(<<"  hero.move_right()">>),
       add_output(<<"  hero.move_left()">>),
       add_output(<<"  hero.move_up()">>),
       add_output(<<"  hero.move_down()">>),
       add_output(<<>>),
       add_output(<<"Press ", "ARROW_UP", "/", "ARROW_DOWN", " to browse command history">>),
       add_output(<<"RULE_40">>) >>

\* str.replace(old, new): every occurrence, left to right, without overlap
RECURSIVE str_replace(_, _, _)
str_replace(s, old, new) ==
    IF Len(s) < Len(old) \/ old = <<>> THEN s
    ELSE IF startswith(s, old)
         THEN new \o str_replace(SubSeq(s, Len(old) + 1, Len(s)), old, new)
         ELSE <<Head(s)>> \o str_replace(Tail(s), old, new)

\* key in METHOD_SUGGESTIONS
suggestion_known(key) ==
    \E i \in 1..Len(METHOD_SUGGESTIONS) : METHOD_SUGGESTIONS[i][1] = key

\* A faulty METHOD_SUGGESTIONS[key]: the first suggestion of the table, whatever the key.
suggestion_first(key) == METHOD_SUGGESTIONS[1][2]

\* METHOD_SUGGESTIONS[key]
suggestion_for(key) ==
    LET i == CHOOSE j \in 1..Len(METHOD_SUGGESTIONS) : METHOD_SUGGESTIONS[j][1] = key
    IN  METHOD_SUGGESTIONS[i][2]

\* the token add_educational_error looks up
stripped_cmd(command) ==
    strip(str_replace(str_replace(command, TXT_HERO_DOT, <<>>), TXT_EMPTY_CALL, <<>>))

\* Console.add_educational_error: the lines it appends
add_educational_error(command, error_type) ==
    <<add_output(<<>>)>> \o
    (IF suggestion_known(stripped_cmd(command))
     THEN << add_error(<<"Oops! That's not quite right.">>),
             add_output(<<"  Did you mean: hero.">> \o suggestion_for(stripped_cmd(command))
                            \o <<"() ?">>),
             add_output(<<"  Tip: Python is picky about spelling!">>) >>
     ELSE IF error_type = "syntax"
     THEN << add_error(<<"Syntax Error!">>),
             add_output(<<"  Check your parentheses () and dots .">>),
             add_output(<<"  Example: hero.move_right()">>) >>
     ELSE IF error_type = "unknown_method"
     THEN << add_error(<<"Unknown command!">>),
             add_output(<<"  The hero doesn't know how to do that.">>),
             add_output(<<"  Try: move_right, move_left, move_up, move_down">>) >>
     ELSE IF error_type = "name"
     THEN << add_error(<<"Name not recognized!">>),
             add_output(<<"  Did you forget 'hero.' at the start?">>),
             add_output(<<"  Commands must start with 'hero.'">>) >>
     ELSE << add_error(<<"Something went wrong!">>),
             add_output(<<"  Try a command like: hero.move_right()">>) >>)
    \o <<add_output(<<>>)>>

\* str.lower() on ASCII letters
lower_char(c) ==
    CASE c = "A" -> "a" [] c = "B" -> "b" [] c = "C" -> "c" [] c = "D" -> "d"
      [] c = "E" -> "e" [] c = "F" -> "f" [] c = "G" -> "g" [] c = "H" -> "h"
      [] c = "I" -> "i" [] c = "J" -> "j" [] c = "K" -> "k" [] c = "L" -> "l"
      [] c = "M" -> "m" [] c = "N" -> "n" [] c = "O" -> "o" [] c = "P" -> "p"
      [] c = "Q" -> "q" [] c = "R" -> "r" [] c = "S" -> "s" [] c = "T" -> "t"
      [] c = "U" -> "u" [] c = "V" -> "v" [] c = "W" -> "w" [] c = "X" -> "x"
      [] c = "Y" -> "y" [] c = "Z" -> "z" [] OTHER -> c

\* A faulty lower(): the text is left in the case it was typed in.
lower_as_typed(s) == s

lower(s) == [i \in 1..Len(s) |-> lower_char(s[i])]

(***************************************************************************)
(* State                                                                   *)
(***************************************************************************)
VARIABLES
    player,                 \* Game.player: the fields of sprites.py Player
    obstacles,              \* Game.obstacles
    collectibles,           \* Game.collectibles
    challenges,             \* Game.challenges
    current_challenge_idx,  \* Game.current_challenge_idx
    challenges_completed,   \* Game.challenges_completed
    score,                  \* Game.score
    gems_collected,         \* Game.gems_collected
    commands_executed,      \* Game.commands_executed
    successful_moves,       \* Game.successful_moves
    console,                \* Console: input_text, cursor_pos, command_history,
                            \* history_index, temp_input
    console_cleared,        \* whether the last handler emptied Console.output_lines
    console_out             \* the lines the last handler appended to Console.output_lines

vars ==
    <<player, obstacles, collectibles, challenges, current_challenge_idx,
      challenges_completed, score, gems_collected, commands_executed, successful_moves,
      console, console_cleared, console_out>>

\* Console.__init__: the input state
Console ==
    [input_text |-> <<>>, cursor_pos |-> 0, command_history |-> <<>>,
     history_index |-> -1, temp_input |-> <<>>]

(***************************************************************************)
(* game.py Game: the progress tracker                                      *)
(***************************************************************************)
\* Game._show_current_challenge: the lines it appends
_show_current_challenge(chs, idx) ==
    IF idx < Len(chs)
    THEN LET challenge == chs[idx + 1]
         IN  << add_output(<<>>),
                add_output(<<"TARGET", " NEW CHALLENGE!">>),
                add_output(<<"   ", challenge.title>>),
                add_output(<<"   ", challenge.description>>),
                add_output(<<"   Reward: ">> \o str_of_int(challenge.reward) \o <<" points">>),
                add_output(<<>>) >>
    ELSE <<>>

\* str.title() on a gem type: the first letter in upper case
title(gem_type) ==
    CASE gem_type = "ruby" -> "Ruby" [] gem_type = "emerald" -> "Emerald"
      [] gem_type = "sapphire" -> "Sapphire" [] gem_type = "gold" -> "Gold"
      [] gem_type = "diamond" -> "Diamond"

\* Game._check_collections, the loop from gem i on; t carries
\* [collectibles, gems_collected, score, out]
RECURSIVE collect_from(_, _, _, _)
collect_from(i, t, player_col, player_row) ==
    IF i > Len(t.collectibles) THEN t
    ELSE LET gem == t.collectibles[i]
         IN  IF ~gem.collected /\ gem.grid_col = player_col /\ gem.grid_row = player_row
             THEN collect_from(i + 1,
                      [collectibles |-> [t.collectibles EXCEPT ![i].collected = TRUE],
                       gems_collected |-> t.gems_collected + 1,
                       score |-> t.score + gem.value,
                       out |-> Append(t.out,
                                  add_success(<<"Collected ", title(gem.gem_type), " gem! +">>
                                              \o str_of_int(gem.value) \o <<" points">>))],
                      player_col, player_row)
             ELSE collect_from(i + 1, t, player_col, player_row)

\* A faulty _check_collections: the collected flag of a gem is not looked at.
_check_collections_again(t, p) ==
    LET on_cell == {i \in 1..Len(t.collectibles) :
                       /\ t.collectibles[i].grid_col = p.grid_col
                       /\ t.collectibles[i].grid_row = p.grid_row}
    IN  IF on_cell = {} THEN t
        ELSE LET i == CHOOSE j \in on_cell : TRUE
                 gem == t.collectibles[i]
             IN  [collectibles |-> [t.collectibles EXCEPT ![i].collected = TRUE],
                  gems_collected |-> t.gems_collected + 1,
                  score |-> t.score + gem.value,
                  out |-> Append(t.out,
                             add_success(<<"Collected ", title(gem.gem_type), " gem! +">>
                                         \o str_of_int(gem.value) \o <<" points">>))]

\* Game._check_collections
_check_collections(t, p) == collect_from(1, t, p.grid_col, p.grid_row)

\* Challenge.check_completion: [hit |-> the returned bool, challenge |-> afterwards]
check_completion(challenge, player_col, player_row) ==
    IF player_col = challenge.target_col /\ player_row = challenge.target_row
    THEN [hit |-> TRUE, challenge |-> [challenge EXCEPT !.completed = TRUE]]
    ELSE [hit |-> FALSE, challenge |-> challenge]

\* A faulty _check_challenge: any incomplete challenge whose target the hero
\* stands on is completed, whichever is current.
_check_challenge_any(t, p) ==
    LET hit == {i \in 1..Len(t.challenges) :
                   /\ ~t.challenges[i].completed
                   /\ t.challenges[i].target_col = p.grid_col
                   /\ t.challenges[i].target_row = p.grid_row}
    IN  IF hit = {} THEN t
        ELSE LET i == CHOOSE j \in hit : TRUE
             IN  [challenges |-> [t.challenges EXCEPT ![i].completed = TRUE],
                  current_challenge_idx |-> t.current_challenge_idx + 1,
                  challenges_completed |-> t.challenges_completed + 1,
                  score |-> t.score + t.challenges[i].reward,
                  out |-> Append(t.out, add_output(<<"TROPHY", " CHALLENGE COMPLETE!">>))]

\* Game._check_challenge; t carries
\* [challenges, current_challenge_idx, challenges_completed, score, out]
_check_challenge(t, p) ==
    IF t.current_challenge_idx >= Len(t.challenges) THEN t
    ELSE LET challenge == t.challenges[t.current_challenge_idx + 1]
             checked == check_completion(challenge, p.grid_col, p.grid_row)
             next_idx == t.current_challenge_idx + 1
             after == [t.challenges EXCEPT ![t.current_challenge_idx + 1] = checked.challenge]
         IN  IF challenge.completed \/ ~checked.hit THEN t
             ELSE [challenges |-> after,
                   current_challenge_idx |-> next_idx,
                   challenges_completed |-> t.challenges_completed + 1,
                   score |-> t.score + challenge.reward,
                   out |-> t.out \o
                           << add_output(<<>>),
                              add_output(<<"TROPHY", " CHALLENGE COMPLETE!">>),
                              add_output(<<"   ", challenge.title, " finished!">>),
                              add_output(<<"   +">> \o str_of_int(challenge.reward)
                                             \o <<" bonus points!">>) >>
                           \o (IF next_idx < Len(after)
                               THEN _show_current_challenge(after, next_idx)
                               ELSE << add_output(<<>>),
                                       add_output(<<"PARTY", " ALL CHALLENGES COMPLETE!">>),
                                       add_output(<<"   You are a true Code Warrior!">>) >>)]

(***************************************************************************)
(* The command lines the console hands to Game._handle_command.            *)
(***************************************************************************)
CMD_MOVE_RIGHT ==
    <<"h", "e", "r", "o", ".", "m", "o", "v", "e", "_", "r", "i", "g", "h", "t", "(", ")">>

CMD_MOVE_LEFT ==
    <<"h", "e", "r", "o", ".", "m", "o", "v", "e", "_", "l", "e", "f", "t", "(", ")">>

CMD_MOVE_UP ==
    <<"h", "e", "r", "o", ".", "m", "o", "v", "e", "_", "u", "p", "(", ")">>

CMD_MOVE_DOWN ==
    <<"h", "e", "r", "o", ".", "m", "o", "v", "e", "_", "d", "o", "w", "n", "(", ")">>

CMD_SPIN ==
    <<"h", "e", "r", "o", ".", "s", "p", "i", "n", "(", ")">>

CMD_DANCE ==
    <<"h", "e", "r", "o", ".", "d", "a", "n", "c", "e", "(", ")">>

\* the six commands of the on-screen command panel that act on the hero
GameInputs ==
    {CMD_MOVE_RIGHT, CMD_MOVE_LEFT, CMD_MOVE_UP, CMD_MOVE_DOWN, CMD_SPIN, CMD_DANCE}

\* the four movement commands
MoveInputs ==
    {CMD_MOVE_RIGHT, CMD_MOVE_LEFT, CMD_MOVE_UP, CMD_MOVE_DOWN}

\* command lines a learner types: misspelt, unknown or private method names, a missing
\* or miscased hero. prefix, broken call syntax, and arguments of every kind
CMD_TYPO_ARG ==
    <<"h", "e", "r", "o", ".", "m", "o", "v", "e", "r", "i", "g", "h", "t", "(", "1", ")">>

CMD_TYPO_SPACE ==
    <<"h", "e", "r", "o", ".", "m", "o", "v", "e", "r", "i", "g", "h", "t", "(", " ", ")">>

CMD_TYPO_QUOTED ==
    <<"h", "e", "r", "o", ".", "r", "i", "g", "h", "t", "(", "'", "x", "'", ")">>

CMD_FLY ==
    <<"h", "e", "r", "o", ".", "f", "l", "y", "(", ")">>

CMD_PRIVATE ==
    <<"h", "e", "r", "o", ".", "_", "p", "l", "a", "y", "e", "r", "(", ")">>

CMD_DUNDER ==
    <<"h", "e", "r", "o", ".", "_", "_", "c", "l", "a", "s", "s", "_", "_", "(", ")">>

CMD_NO_NS_MOVE ==
    <<"m", "o", "v", "e", "_", "r", "i", "g", "h", "t", "(", ")">>

CMD_NO_NS_TYPO ==
    <<"m", "o", "v", "e", "r", "i", "g", "h", "t", "(", ")">>

CMD_NO_NS_WORD ==
    <<"r", "i", "g", "h", "t">>

CMD_NO_NS_CASE ==
    <<"H", "e", "r", "o", ".", "m", "o", "v", "e", "_", "r", "i", "g", "h", "t", "(", ")">>

CMD_NO_NS_OPEN ==
    <<"m", "o", "v", "e", "_", "r", "i", "g", "h", "t", "(">>

CMD_NO_NS_FLY ==
    <<"f", "l", "y", "(", ")">>

CMD_FLY_OPEN ==
    <<"h", "e", "r", "o", ".", "f", "l", "y", "(">>

CMD_FLY_BAD_ARG ==
    <<"h", "e", "r", "o", ".", "f", "l", "y", "(", "x", ")">>

CMD_NO_PARENS ==
    <<"h", "e", "r", "o", ".", "m", "o", "v", "e", "_", "l", "e", "f", "t">>

CMD_SAY_SUM ==
    <<"h", "e", "r", "o", ".", "s", "a", "y", "(", "1", "+", "1", ")">>

CMD_SAY_NAME ==
    <<"h", "e", "r", "o", ".", "s", "a", "y", "(", "x", ")">>

CMD_SAY_SINGLE ==
    <<"h", "e", "r", "o", ".", "s", "a", "y", "(", "'", "h", "i", "'", ")">>

CMD_SAY_DOUBLE ==
    <<"h", "e", "r", "o", ".", "s", "a", "y", "(", "\"", "h", "i", "\"", ")">>

CMD_SAY_INT ==
    <<"h", "e", "r", "o", ".", "s", "a", "y", "(", "5", ")">>

CMD_SAY_TRUE ==
    <<"h", "e", "r", "o", ".", "s", "a", "y", "(", "T", "r", "u", "e", ")">>

CMD_SAY_CALL ==
    <<"h", "e", "r", "o", ".", "s", "a", "y", "(", "s", "e", "l", "f", ".", "h", "e", "r",
    "o", ".", "m", "o", "v", "e", "_", "l", "e", "f", "t", "(", ")", ")">>

CMD_SAY_CALL_SUM ==
    <<"h", "e", "r", "o", ".", "s", "a", "y", "(", "s", "e", "l", "f", ".", "h", "e", "r",
    "o", ".", "m", "o", "v", "e", "_", "l", "e", "f", "t", "(", ")", " ", "+", " ", "1",
    ")">>

CMD_MOVE_ARG ==
    <<"h", "e", "r", "o", ".", "m", "o", "v", "e", "_", "r", "i", "g", "h", "t", "(", "'",
    "x", "'", ")">>

CMD_SPIN_ARG ==
    <<"h", "e", "r", "o", ".", "s", "p", "i", "n", "(", "1", ")">>

CMD_HELP ==
    <<"h", "e", "l", "p">>

CMD_HINT_UPPER ==
    <<"H", "I", "N", "T">>

CMD_CLEAR_MIXED ==
    <<"C", "l", "e", "a", "r">>

CMD_SAY ==
    <<"h", "e", "r", "o", ".", "s", "a", "y", "(", ")">>

CMD_JUMP ==
    <<"h", "e", "r", "o", ".", "j", "u", "m", "p", "(", ")">>

CMD_SAY_MOVING ==
    <<"h", "e", "r", "o", ".", "s", "a", "y", "(", "\"", "M", "o", "v", "i", "n", "g",
    "\"", ")">>

CMD_ATTACK ==
    <<"h", "e", "r", "o", ".", "a", "t", "t", "a", "c", "k", "(", ")">>

CMD_DEFEND ==
    <<"h", "e", "r", "o", ".", "d", "e", "f", "e", "n", "d", "(", ")">>

CMD_COLLECT ==
    <<"h", "e", "r", "o", ".", "c", "o", "l", "l", "e", "c", "t", "(", ")">>

\* hero.<key>() of a key of METHOD_SUGGESTIONS
TypoCommand(key) == TXT_HERO_DOT \o key \o TXT_EMPTY_CALL

TypoInputs == {TypoCommand(METHOD_SUGGESTIONS[i][1]) : i \in 1..Len(METHOD_SUGGESTIONS)}

\* the command lines of the interpreter's specification: the moves and the spin, which
\* make the actor busy, and the lines above
ParseInputs ==
    MoveInputs \cup {CMD_SPIN} \cup TypoInputs \cup
    { CMD_TYPO_ARG, CMD_TYPO_SPACE, CMD_TYPO_QUOTED, CMD_FLY, CMD_PRIVATE, CMD_DUNDER,
      CMD_NO_NS_MOVE, CMD_NO_NS_TYPO, CMD_NO_NS_WORD, CMD_NO_NS_CASE, CMD_NO_NS_OPEN,
      CMD_NO_NS_FLY, CMD_FLY_OPEN, CMD_FLY_BAD_ARG, CMD_NO_PARENS,
      CMD_SAY_SUM, CMD_SAY_NAME, CMD_SAY_SINGLE, CMD_SAY_DOUBLE, CMD_SAY_INT, CMD_SAY_TRUE,
      CMD_SAY_CALL, CMD_SAY_CALL_SUM, CMD_MOVE_ARG, CMD_SPIN_ARG,
      CMD_HELP, CMD_HINT_UPPER, CMD_CLEAR_MIXED, CMD_SAY, CMD_JUMP, CMD_SAY_MOVING,
      CMD_ATTACK, CMD_DEFEND, CMD_COLLECT }

\* the lines a learner types at the console, key by key, before Enter: empty and
\* blank ones, the reserved words in several cases and with blanks around them, and
\* a move
TypedLines ==
    { <<>>,
      <<" ", " ">>,
      <<" ", "H", "e", "l", "p", " ">>,
      <<"h", "i", "n", "t", " ">>,
      <<" ", "C", "L", "E", "A", "R">>,
      CMD_MOVE_UP }

\* what Console._execute_command makes of them on Enter
ConsoleInputs == {strip(line) : line \in TypedLines}

\* the lines of a learner who fills the command history: two reserved words, one of
\* them also typed with a blank before it
HistoryLines ==
    { CMD_HELP, <<"h", "i", "n", "t">>, <<" ", "h", "i", "n", "t">> }

\* the lines of a learner who edits the input line with every key of the console
KeyLines ==
    { CMD_HELP, <<"h", "i", "n", "t">> }

\* every command line some specification submits
Inputs == GameInputs \cup MoveInputs \cup ParseInputs \cup ConsoleInputs

(***************************************************************************)
(* game.py Game: the handlers                                              *)
(***************************************************************************)
\* Game._show_help: the lines it appends
_show_help ==
    << add_output(<<>>),
       add_output(<<"BOOK", " Available Commands:">>),
       add_output(<<"  hero.move_right()  - Move right">>),
       add_output(<<"  hero.move_left()   - Move left">>),
       add_output(<<"  hero.move_up()     - Move up">>),
       add_output(<<"  hero.move_down()   - Move down">>),
       add_output(<<"  hero.spin()        - Spin around">>),
       add_output(<<"  hero.dance()       - Do a dance">>),
       add_output(<<"  hero.say('text')   - Speak">>),
       add_output(<<>>),
       add_output(<<"BOOK", " Special Commands:">>),
       add_output(<<"  help  - Show this help">>),
       add_output(<<"  hint  - Get a hint">>),
       add_output(<<"  clear - Clear console">>),
       add_output(<<>>) >>

\* Game._show_hint: the lines it appends
_show_hint(chs, idx, p) ==
    IF idx >= Len(chs)
    THEN <<add_info(<<"All challenges complete! Try collecting all gems.">>)>>
    ELSE LET challenge == chs[idx + 1]
             dx == challenge.target_col - p.grid_col
             dy == challenge.target_row - p.grid_row
             hints ==
                 (IF dx > 0 THEN <<add_output(<<"   Move right ">> \o str_of_int(dx) \o <<" times">>)>>
                  ELSE IF dx < 0
                       THEN <<add_output(<<"   Move left ">> \o str_of_int(-dx) \o <<" times">>)>>
                       ELSE <<>>)
                 \o
                 (IF dy > 0 THEN <<add_output(<<"   Move down ">> \o str_of_int(dy) \o <<" times">>)>>
                  ELSE IF dy < 0
                       THEN <<add_output(<<"   Move up ">> \o str_of_int(-dy) \o <<" times">>)>>
                       ELSE <<>>)
         IN  <<add_output(<<>>), add_output(<<"BULB", " Hint:">>)>> \o hints
             \o <<add_output(<<"   (Watch out for obstacles!)">>), add_output(<<>>)>>

\* A faulty choice of the except clause: every exception is taken by the last one.
error_type_of_generic(raised) == "unknown"

\* the exception classes of the except clauses of Game._handle_command
error_type_of(raised) ==
    CASE raised = "SyntaxError" -> "syntax"
      [] raised = "NameError" -> "name"
      [] raised = "AttributeError" -> "unknown_method"
      [] OTHER -> "unknown"

\* the text-only part of Game._handle_command for each command line:
\* command.strip(), its lower case, what _execute_hero_command makes of it, and the
\* lines add_educational_error appends for it in each except clause
read_command(command) ==
    LET cmd == strip(command)
    IN  [cmd |-> cmd, lowered |-> lower(cmd), parsed |-> parse_command(cmd),
         errors |-> [error_type \in {"syntax", "name", "unknown_method", "unknown"} |->
                        add_educational_error(cmd, error_type)]]

command_table == [command \in Inputs |-> read_command(command)]

\* Console.on_command, which Game.__init__ sets to Game._handle_command: the handler
\* with the lines `echoed` that Console._execute_command put on the log before the call
on_command(command, echoed) ==
    /\ commands_executed' = commands_executed + 1
    /\ UNCHANGED <<obstacles, collectibles, challenges, current_challenge_idx,
                   challenges_completed, score, gems_collected>>
    /\ LET cmd == command_table[command].cmd
           lowered == command_table[command].lowered
           executed == _execute_hero_command(command_table[command].parsed, player, obstacles)
       IN  IF cmd = <<>>
           THEN /\ console_cleared' = FALSE
                /\ console_out' = echoed
                /\ UNCHANGED <<player, successful_moves>>
           ELSE IF lowered = TXT_HELP
           THEN /\ console_cleared' = FALSE
                /\ console_out' = echoed \o _show_help
                /\ UNCHANGED <<player, successful_moves>>
           ELSE IF lowered = TXT_CLEAR
           THEN /\ console_cleared' = TRUE
                /\ console_out' = _add_welcome_message
                /\ UNCHANGED <<player, successful_moves>>
           ELSE IF lowered = TXT_HINT
           THEN /\ console_cleared' = FALSE
                /\ console_out' = echoed \o _show_hint(challenges, current_challenge_idx, player)
                /\ UNCHANGED <<player, successful_moves>>
           ELSE IF executed.raised = "none"
           THEN /\ console_cleared' = FALSE
                /\ player' = executed.player
                /\ console_out' = IF executed.result # <<>>
                                  THEN Append(echoed, add_success(executed.result))
                                  ELSE echoed
                /\ successful_moves' =
                       IF executed.result # <<>> /\ contains(executed.result, TXT_MOVING)
                       THEN successful_moves + 1
                       ELSE successful_moves
           ELSE /\ console_cleared' = FALSE
                /\ player' = executed.player
                /\ console_out' = echoed \o command_table[command].errors[error_type_of(executed.raised)]
                /\ UNCHANGED successful_moves

\* Game._handle_command, called with a command line
_handle_command(command) ==
    /\ on_command(command, <<>>)
    /\ UNCHANGED console

(***************************************************************************)
(* ui.py Console, the input side                                           *)
(***************************************************************************)
\* Console._insert_character
_insert_character(char) ==
    /\ console' = [console EXCEPT
                      !.input_text = SubSeq(console.input_text, 1, console.cursor_pos)
                                     \o <<char>>
                                     \o SubSeq(console.input_text, console.cursor_pos + 1,
                                               Len(console.input_text)),
                      !.cursor_pos = console.cursor_pos + 1]
    /\ console_cleared' = FALSE
    /\ console_out' = <<>>
    /\ UNCHANGED <<player, obstacles, collectibles, challenges, current_challenge_idx,
                   challenges_completed, score, gems_collected, commands_executed,
                   successful_moves>>

\* A faulty history: when the list is full the newest entry is dropped, not the oldest.
add_to_history_drops_newest(command_history, command) ==
    LET added == IF command_history = <<>> \/ command_history[Len(command_history)] # command
                 THEN Append(command_history, command)
                 ELSE command_history
    IN  IF Len(added) > CONSOLE_MAX_HISTORY THEN SubSeq(added, 1, Len(added) - 1) ELSE added

\* Console._execute_command, the history part: the list after the command was added
add_to_history(command_history, command) ==
    LET added == IF command_history = <<>> \/ command_history[Len(command_history)] # command
                 THEN Append(command_history, command)
                 ELSE command_history
    IN  IF Len(added) > CONSOLE_MAX_HISTORY THEN Tail(added) ELSE added

\* A faulty _execute_command: the line is handed on without the test for a blank one.
_execute_command_unfiltered ==
    LET command == strip(console.input_text)
    IN  /\ console' = [console EXCEPT
                          !.command_history = add_to_history(console.command_history, command),
                          !.input_text = <<>>, !.cursor_pos = 0,
                          !.history_index = -1, !.temp_input = <<>>]
        /\ on_command(command, <<OutputLine(<<">>> ">> \o command, "command")>>)

\* Console._execute_command (Enter), the call of on_command included
_execute_command ==
    LET command == strip(console.input_text)
    IN  IF command = <<>>
        THEN /\ console_cleared' = FALSE
             /\ console_out' = <<>>
             /\ UNCHANGED <<player, obstacles, collectibles, challenges,
                            current_challenge_idx, challenges_completed, score,
                            gems_collected, commands_executed, successful_moves, console>>
        ELSE /\ console' = [console EXCEPT
                               !.command_history =
                                   add_to_history(console.command_history, command),
                               !.input_text = <<>>, !.cursor_pos = 0,
                               !.history_index = -1, !.temp_input = <<>>]
             /\ on_command(command, <<OutputLine(<<">>> ">> \o command, "command")>>)

\* Console._handle_backspace: the console afterwards
_handle_backspace(c) ==
    IF c.cursor_pos > 0
    THEN [c EXCEPT !.input_text = SubSeq(c.input_text, 1, c.cursor_pos - 1)
                                  \o SubSeq(c.input_text, c.cursor_pos + 1, Len(c.input_text)),
                   !.cursor_pos = c.cursor_pos - 1]
    ELSE c

\* Console._handle_delete
_handle_delete(c) ==
    IF c.cursor_pos < Len(c.input_text)
    THEN [c EXCEPT !.input_text = SubSeq(c.input_text, 1, c.cursor_pos)
                                  \o SubSeq(c.input_text, c.cursor_pos + 2, Len(c.input_text))]
    ELSE c

\* Console._move_cursor_left
_move_cursor_left(c) ==
    IF c.cursor_pos > 0 THEN [c EXCEPT !.cursor_pos = c.cursor_pos - 1] ELSE c

\* Console._move_cursor_right
_move_cursor_right(c) ==
    IF c.cursor_pos < Len(c.input_text) THEN [c EXCEPT !.cursor_pos = c.cursor_pos + 1] ELSE c

\* command_history[-(history_index + 1)]
history_entry(command_history, history_index) ==
    command_history[Len(command_history) - history_index]

\* A faulty _navigate_history_up: the typed text is saved on every Up, not only on the
\* one that starts the browsing.
_navigate_history_up_saves_always(c) ==
    IF c.command_history = <<>>
    THEN c
    ELSE IF c.history_index < Len(c.command_history) - 1
         THEN [c EXCEPT !.temp_input = c.input_text,
                        !.history_index = c.history_index + 1,
                        !.input_text = history_entry(c.command_history, c.history_index + 1),
                        !.cursor_pos = Len(history_entry(c.command_history, c.history_index + 1))]
         ELSE [c EXCEPT !.temp_input = c.input_text]

\* Console._navigate_history_up
_navigate_history_up(c) ==
    IF c.command_history = <<>>
    THEN c
    ELSE LET temp_input == IF c.history_index = -1 THEN c.input_text ELSE c.temp_input
         IN  IF c.history_index < Len(c.command_history) - 1
             THEN [c EXCEPT !.temp_input = temp_input,
                            !.history_index = c.history_index + 1,
                            !.input_text = history_entry(c.command_history, c.history_index + 1),
                            !.cursor_pos = Len(history_entry(c.command_history, c.history_index + 1))]
             ELSE [c EXCEPT !.temp_input = temp_input]

\* Console._navigate_history_down
_navigate_history_down(c) ==
    IF c.history_index > 0
    THEN [c EXCEPT !.history_index = c.history_index - 1,
                   !.input_text = history_entry(c.command_history, c.history_index - 1),
                   !.cursor_pos = Len(history_entry(c.command_history, c.history_index - 1))]
    ELSE IF c.history_index = 0
    THEN [c EXCEPT !.history_index = -1,
                   !.input_text = c.temp_input,
                   !.cursor_pos = Len(c.temp_input)]
    ELSE c

\* A faulty K_END: the cursor is put on the last character, not behind it.
key_end_on_last(c) == [c EXCEPT !.cursor_pos = Len(c.input_text) - 1]

\* Console.handle_event, K_END
key_end(c) == [c EXCEPT !.cursor_pos = Len(c.input_text)]

\* Console.handle_event, K_HOME
key_home(c) == [c EXCEPT !.cursor_pos = 0]

\* the keys of Console.handle_event besides K_RETURN and the printable ones
EDIT_KEYS ==
    {"K_BACKSPACE", "K_DELETE", "K_LEFT", "K_RIGHT", "K_UP", "K_DOWN", "K_HOME", "K_END"}

\* Console.handle_event for a key of EDIT_KEYS: nothing is returned, the game is not
\* involved
handle_event(key) ==
    /\ console' = CASE key = "K_BACKSPACE" -> _handle_backspace(console)
                    [] key = "K_DELETE"    -> _handle_delete(console)
                    [] key = "K_LEFT"      -> _move_cursor_left(console)
                    [] key = "K_RIGHT"     -> _move_cursor_right(console)
                    [] key = "K_UP"        -> _navigate_history_up(console)
                    [] key = "K_DOWN"      -> _navigate_history_down(console)
                    [] key = "K_HOME"      -> key_home(console)
                    [] key = "K_END"       -> key_end(console)
    /\ console_cleared' = FALSE
    /\ console_out' = <<>>
    /\ UNCHANGED <<player, obstacles, collectibles, challenges, current_challenge_idx,
                   challenges_completed, score, gems_collected, commands_executed,
                   successful_moves>>

\* A faulty _update: the challenge is checked before the collectibles.
_update_challenge_first ==
    LET moved == Player_update(player)
        checked == _check_challenge(
                       [challenges |-> challenges,
                        current_challenge_idx |-> current_challenge_idx,
                        challenges_completed |-> challenges_completed,
                        score |-> score, out |-> <<>>], moved)
        collected == _check_collections(
                         [collectibles |-> collectibles, gems_collected |-> gems_collected,
                          score |-> checked.score, out |-> checked.out], moved)
    IN  /\ player' = moved
        /\ collectibles' = collected.collectibles
        /\ gems_collected' = collected.gems_collected
        /\ challenges' = checked.challenges
        /\ current_challenge_idx' = checked.current_challenge_idx
        /\ challenges_completed' = checked.challenges_completed
        /\ score' = collected.score
        /\ console_cleared' = FALSE
        /\ console_out' = collected.out
        /\ UNCHANGED <<obstacles, commands_executed, successful_moves, console>>

\* Game._update: one tick
_update ==
    LET moved == Player_update(player)
        collected == _check_collections(
                         [collectibles |-> collectibles, gems_collected |-> gems_collected,
                          score |-> score, out |-> <<>>], moved)
        checked == _check_challenge(
                       [challenges |-> challenges,
                        current_challenge_idx |-> current_challenge_idx,
                        challenges_completed |-> challenges_completed,
                        score |-> collected.score, out |-> collected.out], moved)
    IN  /\ player' = moved
        /\ collectibles' = collected.collectibles
        /\ gems_collected' = collected.gems_collected
        /\ challenges' = checked.challenges
        /\ current_challenge_idx' = checked.current_challenge_idx
        /\ challenges_completed' = checked.challenges_completed
        /\ score' = checked.score
        /\ console_cleared' = FALSE
        /\ console_out' = checked.out
        /\ UNCHANGED <<obstacles, commands_executed, successful_moves, console>>

\* A faulty _reset_game: the completed flags of the challenges are left as they are.
_reset_game_keeps_flags ==
    /\ player' = reset_position(player)
    /\ collectibles' = _create_collectibles(obstacles)
    /\ challenges' = challenges
    /\ current_challenge_idx' = 0
    /\ score' = 0
    /\ gems_collected' = 0
    /\ commands_executed' = 0
    /\ successful_moves' = 0
    /\ challenges_completed' = 0
    /\ console_cleared' = TRUE
    /\ console_out' = _add_welcome_message
                      \o <<add_info(<<"Game reset! Ready for new adventure.">>)>>
                      \o _show_current_challenge(challenges', 0)
    /\ UNCHANGED <<obstacles, console>>

\* A faulty _reset_game: the collectibles are not created anew.
_reset_game_keeps_gems ==
    /\ player' = reset_position(player)
    /\ collectibles' = collectibles
    /\ challenges' = [i \in 1..Len(challenges) |-> [challenges[i] EXCEPT !.completed = FALSE]]
    /\ current_challenge_idx' = 0
    /\ score' = 0
    /\ gems_collected' = 0
    /\ commands_executed' = 0
    /\ successful_moves' = 0
    /\ challenges_completed' = 0
    /\ console_cleared' = TRUE
    /\ console_out' = _add_welcome_message
                      \o <<add_info(<<"Game reset! Ready for new adventure.">>)>>
                      \o _show_current_challenge(challenges', 0)
    /\ UNCHANGED <<obstacles, console>>

\* Game._reset_game (F5)
_reset_game ==
    /\ player' = reset_position(player)
    /\ collectibles' = _create_collectibles(obstacles)
    /\ challenges' = [i \in 1..Len(challenges) |-> [challenges[i] EXCEPT !.completed = FALSE]]
    /\ current_challenge_idx' = 0
    /\ score' = 0
    /\ gems_collected' = 0
    /\ commands_executed' = 0
    /\ successful_moves' = 0
    /\ challenges_completed' = 0
    /\ console_cleared' = TRUE
    /\ console_out' = _add_welcome_message
                      \o <<add_info(<<"Game reset! Ready for new adventure.">>)>>
                      \o _show_current_challenge(challenges', 0)
    /\ UNCHANGED <<obstacles, console>>

\* Game.__init__
Init ==
    /\ obstacles = _create_obstacles
    /\ collectibles = _create_collectibles(_create_obstacles)
    /\ player = Player(PLAYER_START_COL, PLAYER_START_ROW)
    /\ score = 0
    /\ gems_collected = 0
    /\ commands_executed = 0
    /\ successful_moves = 0
    /\ challenges = _create_challenges
    /\ current_challenge_idx = 0
    /\ challenges_completed = 0
    /\ console = Console
    /\ console_cleared = FALSE
    /\ console_out = _add_welcome_message \o _show_current_challenge(_create_challenges, 0)

\* Game._handle_events: one pending command line of the console is handled
SubmitCommand ==
    /\ commands_executed < MaxCommands
    /\ \E command \in GameInputs : _handle_command(command)

\* Game._handle_events: F5
PressF5 ==
    /\ player.is_spinning => player.spin_timer <= MaxResetDelay
    /\ player.is_dancing => player.dance_timer <= MaxResetDelay
    /\ _reset_game

\* Game.run: a frame handles its pending events in order (command lines, F5), then
\* updates; any number of events may precede an update.
Next ==
    \/ SubmitCommand
    \/ _update
    \/ PressF5

Spec == Init /\ [][Next]_vars

\* Game._update, what it does to the player: self.player.update(dt)
player_update == player' = Player_update(player)

\* Game.run calls _update, and with it player.update, in every frame for as long as
\* the game runs
SpecTicking == Init /\ [][Next]_vars /\ WF_player(player_update)

\* The same loop with the movement commands alone, explored more moves deep.
SubmitMove ==
    /\ commands_executed < MaxQuestCommands
    /\ \E command \in MoveInputs : _handle_command(command)

NextQuest ==
    \/ SubmitMove
    \/ _update
    \/ _reset_game

SpecQuest == Init /\ [][NextQuest]_vars

\* Game._handle_events: one pending command line, of any kind, is handled
SubmitLine ==
    /\ commands_executed < MaxParseCommands
    /\ \E command \in ParseInputs : _handle_command(command)

\* Game.run with a learner typing command lines of every kind
NextParse ==
    \/ SubmitLine
    \/ _update
    \/ PressF5

SpecParse == Init /\ [][NextParse]_vars

\* A route through the level: to the ruby of (3,3), the ruby of (1,1), the emerald
\* of (0,7), the diamond of (6,7), the emerald of (8,5), the sapphire of (10,1) and
\* the gold of (11,8).
Tour ==
    LET L == CMD_MOVE_LEFT
        R == CMD_MOVE_RIGHT
        U == CMD_MOVE_UP
        D == CMD_MOVE_DOWN
    IN  <<L, L, U>> \o <<U, U, L, L>> \o <<L, D, D, D, D, D, D>> \o <<R, R, R, R, R, R>>
        \o <<R, R, U, U>> \o <<U, R, R, U, U, U>> \o <<R, D, D, D, D, D, D, D>>

\* Game._handle_events: the learner follows the route, typing its next command once
\* the hero has come to rest
SubmitTour ==
    /\ commands_executed < Len(Tour)
    /\ ~player.is_moving
    /\ _handle_command(Tour[commands_executed + 1])

NextTour ==
    \/ SubmitTour
    \/ _update
    \/ _reset_game

\* Game.run calls _update in every frame; the learner goes on along the route
SpecTour == Init /\ [][NextTour]_vars /\ WF_vars(_update) /\ WF_vars(SubmitTour)

\* Console.handle_event, a printable key: the learner types on towards a line of
\* TypedLines
KeyChar ==
    \E line \in TypedLines :
        /\ Len(console.input_text) < Len(line)
        /\ console.input_text = SubSeq(line, 1, Len(console.input_text))
        /\ _insert_character(line[Len(console.input_text) + 1])

\* Console.handle_event, K_RETURN, pressed when a line of TypedLines stands typed
KeyReturn ==
    /\ commands_executed < MaxConsoleCommands
    /\ console.input_text \in TypedLines
    /\ _execute_command

\* Game.run with the learner at the keyboard
NextConsole ==
    \/ KeyChar
    \/ KeyReturn
    \/ _update

SpecConsole == Init /\ [][NextConsole]_vars

\* Console.handle_event, a printable key: the learner types on towards a line of
\* HistoryLines
KeyHistoryChar ==
    \E line \in HistoryLines :
        /\ Len(console.input_text) < Len(line)
        /\ console.input_text = SubSeq(line, 1, Len(console.input_text))
        /\ _insert_character(line[Len(console.input_text) + 1])

\* Console.handle_event, K_RETURN, pressed when a line of HistoryLines stands typed;
\* the first line of the session is help
KeyHistoryReturn ==
    /\ commands_executed < MaxHistoryCommands
    /\ console.input_text \in HistoryLines
    /\ console.command_history = <<>> => console.input_text = CMD_HELP
    /\ _execute_command

\* Game.run with a learner who submits help and hint, in any order, again and again
NextHistory ==
    \/ KeyHistoryChar
    \/ KeyHistoryReturn
    \/ _update

SpecHistory == Init /\ [][NextHistory]_vars

\* the texts that can be completed to `line` by inserting characters: `line` with
\* any of its characters left out
RECURSIVE Subwords(_)
Subwords(line) ==
    LET with_head(rest) == {w : w \in rest \cup {<<Head(line)>> \o r : r \in rest}}
    IN  IF line = <<>> THEN {<<>>} ELSE with_head(Subwords(Tail(line)))

TypableTexts == UNION {Subwords(line) : line \in KeyLines}

\* the printable keys the learner uses
KeyChars == UNION {{line[i] : i \in 1..Len(line)} : line \in KeyLines}

\* Console.handle_event, a printable key, typed at the cursor wherever the text can
\* still become a line of KeyLines
KeyPrintable ==
    \E char \in KeyChars :
        /\ SubSeq(console.input_text, 1, console.cursor_pos) \o <<char>>
           \o SubSeq(console.input_text, console.cursor_pos + 1, Len(console.input_text))
               \in TypableTexts
        /\ _insert_character(char)

\* Console.handle_event, one of the editing keys, at any moment
KeyEdit == \E key \in EDIT_KEYS : handle_event(key)

\* Console.handle_event, K_RETURN, pressed on an empty line or on a line of KeyLines
KeyEnter ==
    /\ commands_executed < MaxKeyCommands
    /\ console.input_text \in KeyLines \cup {<<>>}
    /\ _execute_command

\* Game.run with a learner who uses every key of the console
NextKeys ==
    \/ KeyPrintable
    \/ KeyEdit
    \/ KeyEnter
    \/ _update

SpecKeys == Init /\ [][NextKeys]_vars

(***************************************************************************)
(* Vocabulary of the properties                                            *)
(***************************************************************************)
Idle(p) == ~p.is_moving /\ ~p.is_spinning /\ ~p.is_dancing

\* the cells of the board and the cells an obstacle stands on
BoardCells == (0..(GRID_COLS - 1)) \X (0..(GRID_ROWS - 1))

ObstacleCells ==
    {<<obstacle_positions[i][1], obstacle_positions[i][2]>> : i \in 1..Len(obstacle_positions)}

\* a movement command: its step on the grid and the two messages of its Hero method
Moves ==
    { [command |-> CMD_MOVE_RIGHT, dx |-> 1, dy |-> 0,
       moving |-> MSG_MOVING_RIGHT, blocked |-> MSG_BLOCKED_RIGHT],
      [command |-> CMD_MOVE_LEFT, dx |-> -1, dy |-> 0,
       moving |-> MSG_MOVING_LEFT, blocked |-> MSG_BLOCKED_LEFT],
      [command |-> CMD_MOVE_UP, dx |-> 0, dy |-> -1,
       moving |-> MSG_MOVING_UP, blocked |-> MSG_BLOCKED_UP],
      [command |-> CMD_MOVE_DOWN, dx |-> 0, dy |-> 1,
       moving |-> MSG_MOVING_DOWN, blocked |-> MSG_BLOCKED_DOWN] }

TargetCell(p, m) == <<p.grid_col + m.dx, p.grid_row + m.dy>>

CellOf(p) == <<p.grid_col, p.grid_row>>

\* the four cells beside a cell
Neighbours(cell) ==
    {<<cell[1] + 1, cell[2]>>, <<cell[1] - 1, cell[2]>>,
     <<cell[1], cell[2] + 1>>, <<cell[1], cell[2] - 1>>}

\* the pixel centre of a cell
CentreOf(cell) ==
    <<GAME_AREA_X + cell[1] * TILE_SIZE + 32, GAME_AREA_Y + cell[2] * TILE_SIZE + 32>>

\* the last handler surfaced exactly this hero message
Surfaced(msg) == console_out = <<OutputLine(<<"CHECK_MARK", " ">> \o msg, "success")>>

SurfacedNext(msg) == console_out' = <<OutputLine(<<"CHECK_MARK", " ">> \o msg, "success")>>

(***************************************************************************)
(* C1.  For every Idle actor position and every direction whose adjacent   *)
(* target cell is inside the 12x9 board and holds no obstacle, the move    *)
(* request succeeds and the logical grid position is the target cell at    *)
(* request time, before any tick has advanced the animation: the           *)
(* continuous position is still the centre of the cell the actor left.     *)
(***************************************************************************)
C1_IdleMoveSucceedsAtOnce ==
    [][\A m \in Moves :
          ( /\ Idle(player)
            /\ TargetCell(player, m) \in BoardCells \ ObstacleCells
            /\ _handle_command(m.command) )
          => /\ CellOf(player') = TargetCell(player, m)
             /\ SurfacedNext(m.moving)
             /\ successful_moves' = successful_moves + 1
             /\ player'.is_moving
             /\ <<player'.x, player'.y>> = <<player.x, player.y>>
             /\ <<player.x, player.y>> = CentreOf(CellOf(player))
             /\ <<player'.target_x, player'.target_y>> = CentreOf(TargetCell(player, m))]_vars

\* an accepted move has just put the actor on the left border, the animation not begun
C1_Witness ==
    /\ Surfaced(MSG_MOVING_LEFT)
    /\ player.grid_col = 0
    /\ player.x = CentreOf(<<1, player.grid_row>>)[1]

(***************************************************************************)
(* C2.  A move request submitted while the actor is Moving or Performing   *)
(* returns Busy ("still moving" or "busy performing") and changes neither  *)
(* the logical grid position nor the target; no command submitted while    *)
(* the actor is busy changes any field of the actor, however many are      *)
(* handled before the next tick, and a tick of a busy actor leaves the     *)
(* logical cell and the target alone, so the action ends by ticks only.    *)
(***************************************************************************)
C2_BusyMoveRejected ==
    [][ /\ \A m \in Moves :
              (~Idle(player) /\ _handle_command(m.command))
              => /\ player' = player
                 /\ SurfacedNext(IF player.is_moving THEN MSG_STILL_MOVING
                                 ELSE MSG_BUSY_PERFORMING)
                 /\ successful_moves' = successful_moves
        /\ \A command \in GameInputs :
              (~Idle(player) /\ _handle_command(command)) => player' = player
        /\ (~Idle(player) /\ _update)
              => /\ CellOf(player') = CellOf(player)
                 /\ <<player'.target_x, player'.target_y>> = <<player.target_x, player.target_y>>
      ]_vars

\* a spin was accepted and two further commands were refused before the first tick,
\* the last of them a move
C2_Witness ==
    /\ player.is_spinning
    /\ player.spin_timer = 0
    /\ commands_executed = 3
    /\ Surfaced(MSG_BUSY_PERFORMING)

(***************************************************************************)
(* C3.  A move request from an Idle actor toward a cell that holds an      *)
(* obstacle or lies outside the board returns the blocked result of its    *)
(* direction and leaves the whole actor state unchanged, as well as the    *)
(* count of successful moves.                                              *)
(***************************************************************************)
C3_BlockedMoveChangesNothing ==
    [][\A m \in Moves :
          ( /\ Idle(player)
            /\ TargetCell(player, m) \notin BoardCells \ ObstacleCells
            /\ _handle_command(m.command) )
          => /\ player' = player
             /\ SurfacedNext(m.blocked)
             /\ successful_moves' = successful_moves]_vars

\* the actor stands on the top row and a move up has just been refused
C3_Witness ==
    /\ Surfaced(MSG_BLOCKED_UP)
    /\ player.grid_row = 0
    /\ Idle(player)

(***************************************************************************)
(* C4.  Every rejected move, spin or dance request is surfaced with a      *)
(* reason that tells OutOfBounds, Blocked and Busy apart, a Busy one       *)
(* naming whether the actor is moving or performing; this holds for spin   *)
(* and dance requests as well as for the four move requests.               *)
(***************************************************************************)
\* the reason a surfaced message names
ReasonNamed(msg) ==
    IF msg = MSG_STILL_MOVING THEN "BusyMoving"
    ELSE IF msg = MSG_BUSY_PERFORMING THEN "BusyPerforming"
    ELSE IF \E m \in Moves : msg = m.blocked THEN "Blocked"
    ELSE "Unspecified"

\* why a request for `command` is rejected in the state of actor p
Cause(p, command) ==
    IF p.is_moving THEN "BusyMoving"
    ELSE IF p.is_spinning \/ p.is_dancing THEN "BusyPerforming"
    ELSE LET m == CHOOSE mv \in Moves : mv.command = command
         IN  IF TargetCell(p, m) \notin BoardCells THEN "OutOfBounds" ELSE "Blocked"

\* a request is rejected when the command leaves the actor as it was: each of the
\* six commands changes the actor when it is accepted
C4_RejectionNamesItsCause ==
    [][\A command \in GameInputs :
          (_handle_command(command) /\ player' = player)
          => \E msg \in {MSG_STILL_MOVING, MSG_BUSY_PERFORMING, MSG_CANT_SPIN, MSG_CANT_DANCE}
                          \cup {m.blocked : m \in Moves} :
                 /\ SurfacedNext(msg)
                 /\ ReasonNamed(msg) = Cause(player, command)]_vars

(***************************************************************************)
(* C5.  In every reachable state at most one of is_moving, is_spinning     *)
(* and is_dancing is true.                                                 *)
(***************************************************************************)
C5_OneActionAtATime ==
    /\ ~(player.is_moving /\ player.is_spinning)
    /\ ~(player.is_moving /\ player.is_dancing)
    /\ ~(player.is_spinning /\ player.is_dancing)

\* a dance is under way and a spin requested meanwhile has just been refused
C5_Witness ==
    /\ player.is_dancing
    /\ player.dance_timer > 0
    /\ Surfaced(MSG_CANT_SPIN)

(***************************************************************************)
(* C6.  In every reachable state the logical grid position satisfies       *)
(* 0 <= col < 12 and 0 <= row < 9.                                         *)
(***************************************************************************)
C6_PositionOnBoard ==
    /\ 0 <= player.grid_col /\ player.grid_col < 12
    /\ 0 <= player.grid_row /\ player.grid_row < 9

\* the actor stands on the bottom row and a move further down has just been refused
C6_Witness ==
    /\ player.grid_row = 8
    /\ Surfaced(MSG_BLOCKED_DOWN)

(***************************************************************************)
(* Vocabulary of the tracker's properties                                  *)
(***************************************************************************)
GemCell(gem) == <<gem.grid_col, gem.grid_row>>

TargetOf(challenge) == <<challenge.target_col, challenge.target_row>>

\* the gems a step collects
NewlyCollected ==
    {i \in 1..Len(collectibles) : ~collectibles[i].collected /\ collectibles'[i].collected}

\* the sum of the values of the gems of the set S
RECURSIVE ValueOf(_, _)
ValueOf(gems, S) ==
    IF S = {} THEN 0
    ELSE LET i == CHOOSE j \in S : TRUE
         IN  gems[i].value + ValueOf(gems, S \ {i})

\* the reward of the sum of the challenges of the set S
RECURSIVE RewardOf(_, _)
RewardOf(chs, S) ==
    IF S = {} THEN 0
    ELSE LET i == CHOOSE j \in S : TRUE
         IN  chs[i].reward + RewardOf(chs, S \ {i})

\* the challenges a step completes
NewlyCompleted ==
    {i \in 1..Len(challenges) : ~challenges[i].completed /\ challenges'[i].completed}

(***************************************************************************)
(* C7.  Collection is idempotent and monotonic: a collected flag goes from *)
(* false to true only with the actor on the gem's cell, the gem's value is *)
(* added to the score in that step and the collected count rises by one;   *)
(* a step that collects no gem adds no gem value and leaves the count, so  *)
(* staying on or revisiting a collected gem awards nothing; a flag returns *)
(* to false only through reset.                                            *)
(***************************************************************************)
C7_CollectedOnce ==
    [][ \/ _reset_game
        \/ /\ Len(collectibles') = Len(collectibles)
           /\ \A i \in 1..Len(collectibles) :
                 /\ collectibles[i].collected => collectibles'[i].collected
                 /\ i \in NewlyCollected => GemCell(collectibles[i]) = CellOf(player')
                 /\ GemCell(collectibles'[i]) = GemCell(collectibles[i])
                 /\ collectibles'[i].value = collectibles[i].value
           /\ gems_collected' = gems_collected + Cardinality(NewlyCollected)
           /\ score' = score + ValueOf(collectibles, NewlyCollected)
                             + RewardOf(challenges, NewlyCompleted)
      ]_vars

\* the actor has just re-entered the cell of a gem it collected before: the move is
\* accepted, no tick has passed since, and the score holds that gem's value once
C7_Witness ==
    \E i \in 1..Len(collectibles) :
        /\ collectibles[i].collected
        /\ GemCell(collectibles[i]) = CellOf(player)
        /\ \E m \in Moves : Surfaced(m.moving)
        /\ score = collectibles[i].value
        /\ gems_collected = 1

(***************************************************************************)
(* C8.  Challenge completion is ordered and monotonic: the current index   *)
(* advances by one at a time and only in a step that completes the         *)
(* challenge that was current, with the actor on its target; a completed   *)
(* challenge stays completed until a reset; a challenge other than the     *)
(* current one is never changed, so the actor standing on the target of a  *)
(* later challenge completes nothing and earns no reward.                  *)
(***************************************************************************)
C8_ChallengesInOrder ==
    [][ \/ _reset_game
        \/ /\ Len(challenges') = Len(challenges)
           /\ \A i \in 1..Len(challenges) : challenges[i].completed => challenges'[i].completed
           /\ current_challenge_idx' \in {current_challenge_idx, current_challenge_idx + 1}
           /\ \A j \in 1..Len(challenges) :
                 j # current_challenge_idx + 1 => challenges'[j] = challenges[j]
           /\ current_challenge_idx' = current_challenge_idx + 1
                 => /\ NewlyCompleted = {current_challenge_idx + 1}
                    /\ TargetOf(challenges[current_challenge_idx + 1]) = CellOf(player')
           /\ current_challenge_idx' = current_challenge_idx
                 => /\ challenges' = challenges
                    /\ score' = score + ValueOf(collectibles, NewlyCollected)
      ]_vars

\* the actor rests on (6, 7), the target of the second challenge, while the first is
\* still current: the diamond of that cell is all it earned
C8_Witness ==
    /\ CellOf(player) = <<6, 7>>
    /\ Idle(player)
    /\ current_challenge_idx = 0
    /\ ~challenges[2].completed
    /\ score = 50

(***************************************************************************)
(* C9.  In every reachable state the current index points at the           *)
(* lowest-indexed incomplete challenge: every challenge below it is        *)
(* completed, every challenge at or above it is incomplete,                *)
(* 0 <= current_challenge_idx <= 3, and challenges_completed equals it.    *)
(***************************************************************************)
C9_CurrentIsLowestIncomplete ==
    /\ current_challenge_idx \in 0..3
    /\ Len(challenges) = 3
    /\ \A i \in 1..3 : challenges[i].completed <=> (i - 1 < current_challenge_idx)
    /\ challenges_completed = current_challenge_idx

\* the first challenge is completed and the actor has moved on from its target
C9_Witness ==
    /\ current_challenge_idx = 1
    /\ challenges[1].completed
    /\ CellOf(player) # TargetOf(challenges[1])

(***************************************************************************)
(* C10.  A tick checks the collectibles first and the current challenge    *)
(* second: when the actor's cell holds an uncollected collectible and the  *)
(* current challenge's target, that one tick reports the gem before the    *)
(* challenge, raises the score by value + reward and advances the current  *)
(* index by exactly one.                                                   *)
(***************************************************************************)
C10_GemThenChallengeInOneTick ==
    [][\A i \in 1..Len(collectibles) :
          ( /\ _update
            /\ ~collectibles[i].collected
            /\ GemCell(collectibles[i]) = CellOf(player)
            /\ current_challenge_idx < Len(challenges)
            /\ TargetOf(challenges[current_challenge_idx + 1]) = CellOf(player) )
          => /\ collectibles'[i].collected
             /\ challenges'[current_challenge_idx + 1].completed
             /\ score' = score + collectibles[i].value
                               + challenges[current_challenge_idx + 1].reward
             /\ current_challenge_idx' = current_challenge_idx + 1
             /\ Len(console_out') >= 3
             /\ console_out'[1].line_type = "success"
             /\ console_out'[1].text[3] = "Collected "
             /\ console_out'[3].text = <<"TROPHY", " CHALLENGE COMPLETE!">>]_vars

\* the tick on (1, 1) has just awarded the ruby and the first challenge together
C10_Witness ==
    /\ CellOf(player) = <<1, 1>>
    /\ score = 35
    /\ current_challenge_idx = 1
    /\ collectibles[1].collected
    /\ Len(console_out) >= 3
    /\ console_out[3].text = <<"TROPHY", " CHALLENGE COMPLETE!">>

(***************************************************************************)
(* C11.  From every reachable session state, reset yields score 0,         *)
(* collected count 0, executed-command and successful-move counts 0, all   *)
(* three challenges incomplete with current index 0, and the canonical     *)
(* seven collectibles at their canonical cells, all uncollected.           *)
(***************************************************************************)
\* the seven collectibles of the level: cell and kind
CanonicalGems ==
    { <<1, 1, "ruby">>, <<10, 1, "sapphire">>, <<0, 7, "emerald">>, <<11, 8, "gold">>,
      <<6, 7, "diamond">>, <<3, 3, "ruby">>, <<8, 5, "emerald">> }

C11_ResetRestoresSession ==
    [][_reset_game
         => /\ score' = 0
            /\ gems_collected' = 0
            /\ commands_executed' = 0
            /\ successful_moves' = 0
            /\ current_challenge_idx' = 0
            /\ challenges_completed' = 0
            /\ Len(challenges') = 3
            /\ \A i \in 1..3 : /\ ~challenges'[i].completed
                               /\ TargetOf(challenges'[i]) = TargetOf(_create_challenges[i])
                               /\ challenges'[i].reward = _create_challenges[i].reward
            /\ Len(collectibles') = 7
            /\ \A i \in 1..7 : ~collectibles'[i].collected
            /\ {<<collectibles'[i].grid_col, collectibles'[i].grid_row,
                  collectibles'[i].gem_type>> : i \in 1..7} = CanonicalGems
            /\ \A i \in 1..7 : collectibles'[i].value = GEM_VALUES[collectibles'[i].gem_type]
      ]_vars

\* the reset has just acted: the console was cleared and announces it, and the
\* session counts are those of a new session
C11_Witness ==
    /\ console_cleared
    /\ \E k \in 1..Len(console_out) :
          console_out[k] = add_info(<<"Game reset! Ready for new adventure.">>)
    /\ score = 0
    /\ commands_executed = 0
    /\ \A i \in 1..Len(collectibles) : ~collectibles[i].collected

(***************************************************************************)
(* C12.  Reset issued in any actor state (Idle, mid-move, mid-spin,        *)
(* mid-dance) puts the actor on the start cell (5, 4), Idle, with its      *)
(* continuous position and its target at that cell's centre; a later tick  *)
(* of the idle actor changes nothing of it, so the interrupted animation   *)
(* is not continued; reset leaves the obstacle layout unchanged.           *)
(***************************************************************************)
C12_ResetPlacesActorAtStart ==
    [][ /\ _reset_game
           => /\ CellOf(player') = <<5, 4>>
              /\ Idle(player')
              /\ <<player'.x, player'.y>> = CentreOf(<<5, 4>>)
              /\ <<player'.target_x, player'.target_y>> = CentreOf(<<5, 4>>)
              /\ obstacles' = obstacles
              /\ obstacles' = _create_obstacles
        /\ (Idle(player) /\ _update) => player' = player
      ]_vars

\* a reset interrupted a spin (its timer stopped above 0) and a tick has passed since:
\* the actor rests on the start cell
C12_Witness ==
    /\ player.spin_timer > 0
    /\ ~player.is_spinning
    /\ ~console_cleared
    /\ console_out = <<>>
    /\ CellOf(player) = <<5, 4>>
    /\ <<player.x, player.y>> = CentreOf(<<5, 4>>)

(***************************************************************************)
(* Vocabulary of the interpreter's properties                              *)
(***************************************************************************)
\* the block of lines an error is surfaced with: a blank line, the headline as an
\* error line, the hint lines, a blank line
ErrorBlock(headline, hints) ==
    <<add_output(<<>>), add_error(headline)>> \o hints \o <<add_output(<<>>)>>

\* the "did you mean" result carrying a suggested method name
DidYouMean(suggestion) ==
    ErrorBlock(<<"Oops! That's not quite right.">>,
               << add_output(<<"  Did you mean: hero.">> \o suggestion \o <<"() ?">>),
                  add_output(<<"  Tip: Python is picky about spelling!">>) >>)

SyntaxHint ==
    ErrorBlock(<<"Syntax Error!">>,
               << add_output(<<"  Check your parentheses () and dots .">>),
                  add_output(<<"  Example: hero.move_right()">>) >>)

UnknownMethodHint ==
    ErrorBlock(<<"Unknown command!">>,
               << add_output(<<"  The hero doesn't know how to do that.">>),
                  add_output(<<"  Try: move_right, move_left, move_up, move_down">>) >>)

NamespaceHint ==
    ErrorBlock(<<"Name not recognized!">>,
               << add_output(<<"  Did you forget 'hero.' at the start?">>),
                  add_output(<<"  Commands must start with 'hero.'">>) >>)

GenericHint ==
    ErrorBlock(<<"Something went wrong!">>,
               << add_output(<<"  Try a command like: hero.move_right()">>) >>)

\* the "did you mean" results of the table
SuggestionResults ==
    {DidYouMean(METHOD_SUGGESTIONS[i][2]) : i \in 1..Len(METHOD_SUGGESTIONS)}

\* what a handler's output is surfaced as
ResultClass(out) ==
    IF out = SyntaxHint THEN "Syntax"
    ELSE IF out = UnknownMethodHint THEN "UnknownMethod"
    ELSE IF out = NamespaceHint THEN "MissingNamespace"
    ELSE IF out = GenericHint THEN "Unclassified"
    ELSE IF out \in SuggestionResults THEN "Suggestion"
    ELSE IF Len(out) = 1 /\ out[1].line_type = "success" THEN "Success"
    ELSE "Other"

HintOf(class) ==
    CASE class = "Syntax" -> SyntaxHint
      [] class = "UnknownMethod" -> UnknownMethodHint
      [] class = "MissingNamespace" -> NamespaceHint

IsErrorResult(out) == \E k \in 1..Len(out) : out[k].line_type = "error"

Keywords == {TXT_HELP, TXT_HINT, TXT_CLEAR}

\* the exception _execute_hero_command raises on the command line, from its text
RaisedBy(command) == command_table[command].parsed.raised

\* the keywords among the command lines
KeywordInputs == {command \in ParseInputs : lower(command) \in Keywords}

\* the misspelt commands of the table and the result each is to get
TypoResults ==
    [i \in 1..Len(METHOD_SUGGESTIONS) |->
        [command |-> TypoCommand(METHOD_SUGGESTIONS[i][1]),
         result |-> DidYouMean(METHOD_SUGGESTIONS[i][2])]]

\* the step leaves the tracker and the level as they were
TrackerUnchanged ==
    UNCHANGED <<obstacles, collectibles, challenges, current_challenge_idx,
                challenges_completed, score, gems_collected, successful_moves>>

(***************************************************************************)
(* C13.  For every method token m of the misspelling table, hero.m() is    *)
(* refused as an unknown method (AttributeError) and surfaced with the     *)
(* correction the table maps m to; the actor and the tracker are left      *)
(* unchanged, and the executed-command count rises by one.                 *)
(***************************************************************************)
C13_TypoSuggestsCorrection ==
    [][\A i \in 1..Len(METHOD_SUGGESTIONS) :
          _handle_command(TypoResults[i].command)
          => /\ RaisedBy(TypoResults[i].command) = "AttributeError"
             /\ console_out' = TypoResults[i].result
             /\ player' = player
             /\ TrackerUnchanged
             /\ commands_executed' = commands_executed + 1]_vars

\* C13 as stated: the whole session state, the executed-command count included, is
\* left unchanged
C13_AsStated ==
    [][\A i \in 1..Len(METHOD_SUGGESTIONS) :
          _handle_command(TypoResults[i].command)
          => /\ console_out' = TypoResults[i].result
             /\ player' = player
             /\ TrackerUnchanged
             /\ commands_executed' = commands_executed]_vars

\* a misspelling of dance was the second command handled: "did you mean dance"
C13_Witness ==
    /\ console_out = DidYouMean(M_dance)
    /\ commands_executed = 2

(***************************************************************************)
(* C14.  Whenever a command hero.m(<argument text>) has a method token m   *)
(* of the misspelling table, whatever stands between the parentheses, the  *)
(* result reports the "did you mean" suggestion for m.                     *)
(***************************************************************************)
\* the calls whose method token is a key of the table, whatever their argument
TypoCalls ==
    {command \in ParseInputs :
        re_match(command).matched /\ suggestion_known(re_match(command).group1)}

TypoCallResult ==
    [command \in TypoCalls |-> DidYouMean(suggestion_for(re_match(command).group1))]

C14_TypoAssistanceWithArgument ==
    [][\A command \in TypoCalls :
          _handle_command(command) => console_out' = TypoCallResult[command]]_vars

(***************************************************************************)
(* C15.  For every identifier m that is neither in the whitelist of        *)
(* supported actions nor in the misspelling table (fly, _player,           *)
(* __class__), hero.m() is refused as an unknown method with no            *)
(* suggestion; nothing is invoked on the actor, the actor and the tracker  *)
(* are left unchanged, and the executed-command count rises by one.        *)
(***************************************************************************)
\* hero.m() with m neither supported nor a known misspelling
UnlistedCall(command) ==
    /\ re_match(command).matched
    /\ re_match(command).group2 = <<>>
    /\ ~in_list(re_match(command).group1, VALID_HERO_METHODS)
    /\ ~suggestion_known(re_match(command).group1)

UnlistedCalls == {command \in ParseInputs : UnlistedCall(command)}

C15_UnknownMethodNoSuggestion ==
    [][\A command \in UnlistedCalls :
          _handle_command(command)
          => /\ RaisedBy(command) = "AttributeError"
             /\ console_out' = UnknownMethodHint
             /\ player' = player
             /\ TrackerUnchanged
             /\ commands_executed' = commands_executed + 1]_vars

\* C15 as stated: the whole session state, the executed-command count included, is
\* left unchanged
C15_AsStated ==
    [][\A command \in UnlistedCalls :
          _handle_command(command)
          => /\ console_out' = UnknownMethodHint
             /\ player' = player
             /\ TrackerUnchanged
             /\ commands_executed' = commands_executed]_vars

\* an unknown method was refused while a spin was under way
C15_Witness ==
    /\ console_out = UnknownMethodHint
    /\ player.is_spinning
    /\ player.spin_timer > 0

(***************************************************************************)
(* C16.  Every non-empty, non-keyword input that lacks the hero. prefix    *)
(* (move_right(), and also moveright() or right) is refused as a missing   *)
(* namespace and surfaced with the namespace hint; the actor is unchanged. *)
(***************************************************************************)
\* the non-empty, non-keyword command lines without the prefix
UnprefixedInputs ==
    {command \in ParseInputs \ KeywordInputs :
        command # <<>> /\ ~startswith(command, TXT_HERO_DOT)}

C16_MissingNamespaceHint ==
    [][\A command \in UnprefixedInputs :
          _handle_command(command)
          => /\ RaisedBy(command) = "NameError"
             /\ console_out' = NamespaceHint
             /\ player' = player]_vars

(***************************************************************************)
(* C17.  The checks of the interpreter and their order.  A keyword is      *)
(* never refused.  Of the three checks on the shape of a command (the      *)
(* hero. prefix, the call grammar method(...), the method whitelist), an   *)
(* input failing more than one is classified by the earliest failing one.  *)
(* An input failing a shape check is never classified by its argument.     *)
(* Corrected order: prefix, grammar, whitelist.  As stated: grammar,       *)
(* whitelist, prefix.                                                      *)
(***************************************************************************)
\* the command line without the hero. prefix, if it has it
CallBody(command) ==
    IF startswith(command, TXT_HERO_DOT)
    THEN SubSeq(command, Len(TXT_HERO_DOT) + 1, Len(command))
    ELSE command

\* the leading identifier of the call
MethodToken(command) == SubSeq(CallBody(command), 1, word_prefix_len(CallBody(command)))

\* the checks a command line fails, by the classification of each
Fails(command) ==
    [MissingNamespace |-> ~startswith(command, TXT_HERO_DOT),
     Syntax |-> ~re_match(TXT_HERO_DOT \o CallBody(command)).matched,
     UnknownMethod |-> ~in_list(MethodToken(command), VALID_HERO_METHODS)]

\* the classification of the earliest check of the order that the command fails
Earliest(command, order) ==
    LET failing == {i \in 1..Len(order) : Fails(command)[order[i]]}
    IN  IF failing = {} THEN "none"
        ELSE order[CHOOSE i \in failing : \A j \in failing : i <= j]

\* the command lines that fail a shape check and whose hint no suggestion replaces
ShapeFailures ==
    {command \in ParseInputs \ KeywordInputs :
        /\ ~suggestion_known(stripped_cmd(command))
        /\ \E class \in DOMAIN Fails(command) : Fails(command)[class]}

\* the order of the checks in the source, and the order as stated
OrderInSource == <<"MissingNamespace", "Syntax", "UnknownMethod">>

OrderAsStated == <<"Syntax", "UnknownMethod", "MissingNamespace">>

HintInSourceOrder == [command \in ShapeFailures |-> HintOf(Earliest(command, OrderInSource))]

HintInStatedOrder == [command \in ShapeFailures |-> HintOf(Earliest(command, OrderAsStated))]

ClassifiedBy(hint) ==
    /\ \A command \in KeywordInputs :
          _handle_command(command) => ~IsErrorResult(console_out')
    /\ \A command \in ShapeFailures :
          _handle_command(command) => console_out' = hint[command]

IsLiteralArgument(text) ==
    \/ /\ Len(text) >= 2
       /\ text[1] = text[Len(text)]
       /\ text[1] \in {"'", "\""}
    \/ is_int_literal(text)
    \/ text \in {TXT_TRUE, TXT_FALSE}

\* the calls of a supported method with an argument that is no literal
NonLiteralCalls ==
    {command \in ParseInputs :
        /\ re_match(command).matched
        /\ in_list(re_match(command).group1, VALID_HERO_METHODS)
        /\ strip(re_match(command).group2) # <<>>
        /\ ~IsLiteralArgument(strip(re_match(command).group2))}

C18_OnlyLiteralArguments ==
    [][\A command \in NonLiteralCalls :
          _handle_command(command)
          => /\ IsErrorResult(console_out')
             /\ ResultClass(console_out') # "Syntax"
             /\ player' = player
             /\ TrackerUnchanged]_vars

(***************************************************************************)
(* C19.  Every command line handed to the handler yields a classified      *)
(* result (a keyword's action, a success line or an error block); when it  *)
(* is an error the actor and the tracker are unchanged.                    *)
(***************************************************************************)
C19_ClassifiedAndHarmlessOnError ==
    [][\A command \in ParseInputs :
          _handle_command(command)
          => /\ command \notin KeywordInputs => ResultClass(console_out') # "Other"
             /\ IsErrorResult(console_out') => (player' = player /\ TrackerUnchanged)]_vars

(***************************************************************************)
(* C20.  Every non-empty, non-keyword command produces exactly one         *)
(* surfaced result, a success line or an error block; a request rejected   *)
(* as busy, blocked or out of bounds is never surfaced as a success.       *)
(***************************************************************************)
\* the results of the Hero methods that tell of a rejected request
RejectionMessages ==
    {MSG_STILL_MOVING, MSG_BUSY_PERFORMING, MSG_CANT_SPIN, MSG_CANT_DANCE}
    \cup {m.blocked : m \in Moves}

C20_RejectionNotSuccess ==
    [][\A command \in ParseInputs \ KeywordInputs :
          _handle_command(command)
          => /\ ResultClass(console_out') # "Other"
             /\ \A msg \in RejectionMessages : ~SurfacedNext(msg)]_vars

(***************************************************************************)
(* C21.  The reserved words help, hint and clear, typed in any letter case *)
(* and with blanks around them, each lead to their own system action when  *)
(* Enter is pressed: help lists the commands, hint gives the hint for the  *)
(* current challenge, clear empties the log.  None of them is surfaced as  *)
(* an error, and none changes the actor's position or action state, the    *)
(* score, the collectibles or the challenges.                              *)
(***************************************************************************)
TypedKeywords ==
    { [line |-> <<" ", "H", "e", "l", "p", " ">>, word |-> "help"],
      [line |-> <<"h", "i", "n", "t", " ">>, word |-> "hint"],
      [line |-> <<" ", "C", "L", "E", "A", "R">>, word |-> "clear"] }

Logged(text) == \E k \in 1..Len(console_out') : console_out'[k].text = text

C21_KeywordsShortCircuit ==
    [][ \A typed \in TypedKeywords :
            (console.input_text = typed.line /\ _execute_command) =>
                /\ ~IsErrorResult(console_out')
                /\ typed.word = "help" =>
                       ~console_cleared' /\ Logged(<<"BOOK", " Available Commands:">>)
                /\ typed.word = "hint" =>
                       /\ ~console_cleared'
                       /\ \/ Logged(<<"BULB", " Hint:">>)
                          \/ Logged(<<"All challenges complete! Try collecting all gems.">>)
                /\ typed.word = "clear" =>
                       console_cleared' /\ console_out' = _add_welcome_message
                /\ UNCHANGED <<player, score, gems_collected, collectibles, challenges,
                               current_challenge_idx, challenges_completed>> ]_vars

\* the hint was given while the actor was on its way to the cell above the start cell
C21_Witness ==
    /\ player.is_moving
    /\ CellOf(player) = <<PLAYER_START_COL, PLAYER_START_ROW - 1>>
    /\ \E k \in 1..Len(console_out) : console_out[k].text = <<"BULB", " Hint:">>
    /\ console.command_history = <<CMD_MOVE_UP, <<"h", "i", "n", "t">> >>

(***************************************************************************)
(* C22.  Enter on an empty line or on a line of blanks is a no-op: nothing *)
(* is put on the log, neither an echo nor a result, the command history    *)
(* stays as it is, and no session state changes, the executed-command      *)
(* count included.                                                         *)
(***************************************************************************)
C22_BlankLineIsNoOp ==
    [][ ((\A i \in 1..Len(console.input_text) : console.input_text[i] = " ")
            /\ _execute_command) =>
            /\ console_out' = <<>>
            /\ ~console_cleared'
            /\ console'.command_history = console.command_history
            /\ UNCHANGED <<player, obstacles, collectibles, challenges,
                           current_challenge_idx, challenges_completed, score,
                           gems_collected, commands_executed, successful_moves>> ]_vars

\* two blanks on the input line, one command handled before, nothing on the log
C22_Witness ==
    /\ console.input_text = <<" ", " ">>
    /\ console.command_history = <<CMD_MOVE_UP>>
    /\ commands_executed = 1
    /\ console_out = <<>>

(***************************************************************************)
(* C23.  An accepted spin keeps the actor Performing for exactly 30 ticks  *)
(* and an accepted dance for exactly 60 ticks: the elapsed count is 0 when *)
(* the action is accepted, also when a reset cut an earlier spin or dance  *)
(* short, every tick adds one to it, nothing else changes it, and the      *)
(* actor is Idle after the tick on which it reaches the duration.          *)
(***************************************************************************)
Elapses(performing, elapsed, performing_next, elapsed_next, duration) ==
    /\ (~performing /\ performing_next => elapsed_next = 0)
    /\ (performing => elapsed \in 0..(duration - 1))
    /\ (performing /\ _update =>
            IF elapsed + 1 < duration
            THEN performing_next /\ elapsed_next = elapsed + 1
            ELSE Idle(player'))
    /\ (performing /\ ~_update /\ ~_reset_game =>
            performing_next /\ elapsed_next = elapsed)

C23_PerformingLastsItsDuration ==
    [][ /\ Elapses(player.is_spinning, player.spin_timer,
                   player'.is_spinning, player'.spin_timer, 30)
        /\ Elapses(player.is_dancing, player.dance_timer,
                   player'.is_dancing, player'.dance_timer, 60) ]_vars

\* the last tick of a spin that was started after a reset cut a dance short: only
\* a reset leaves a dance timer above 0 on an actor that does not dance
C23_Witness ==
    /\ player.is_spinning
    /\ player.spin_timer = 29
    /\ ~player.is_dancing
    /\ player.dance_timer > 0

(***************************************************************************)
(* C24.  On a tick with the actor Moving, the continuous position lies on  *)
(* the movement axis of the target; if the target is at least one step of  *)
(* 8 pixels away, the position advances by exactly 8 pixels towards it     *)
(* along that axis and does not pass it; otherwise the position becomes    *)
(* exactly the target and the actor becomes Idle.                          *)
(***************************************************************************)
C24_MovingAdvancesByOneStep ==
    [][ (player.is_moving /\ _update) =>
            LET dx == player.target_x - player.x
                dy == player.target_y - player.y
            IN  /\ dx = 0 \/ dy = 0
                /\ IF Abs(dx) + Abs(dy) >= 8
                   THEN /\ player'.x = player.x + 8 * Sign(dx)
                        /\ player'.y = player.y + 8 * Sign(dy)
                        /\ Abs(player.target_x - player'.x) = Abs(dx) - 8 * Abs(Sign(dx))
                        /\ Abs(player.target_y - player'.y) = Abs(dy) - 8 * Abs(Sign(dy))
                        /\ <<player'.target_x, player'.target_y>>
                               = <<player.target_x, player.target_y>>
                   ELSE /\ player'.x = player.target_x
                        /\ player'.y = player.target_y
                        /\ Idle(player') ]_vars

\* a move whose last step of 8 pixels is still to come
C24_Witness ==
    /\ player.is_moving
    /\ Abs(player.target_x - player.x) + Abs(player.target_y - player.y) = 8
    /\ CellOf(player) # <<PLAYER_START_COL, PLAYER_START_ROW>>

(***************************************************************************)
(* C30.  The target is always the pixel centre of the logical grid cell,   *)
(* (40 + col*64 + 32, 40 + row*64 + 32).  While the actor is not Moving    *)
(* its continuous position is that centre too; while it is Moving the      *)
(* continuous position lies on the straight segment from the centre of     *)
(* the cell it left to the target.                                         *)
(***************************************************************************)
C30_PositionFollowsGridCell ==
    LET centre == <<40 + player.grid_col * 64 + 32, 40 + player.grid_row * 64 + 32>>
        heading == CASE player.direction = "RIGHT" -> <<1, 0>>
                     [] player.direction = "LEFT" -> <<-1, 0>>
                     [] player.direction = "UP" -> <<0, -1>>
                     [] player.direction = "DOWN" -> <<0, 1>>
                     [] OTHER -> <<0, 0>>
    IN  /\ <<player.target_x, player.target_y>> = centre
        /\ ~player.is_moving => <<player.x, player.y>> = centre
        /\ player.is_moving =>
               /\ heading # <<0, 0>>
               /\ \E back \in 0..64 :
                      <<player.x, player.y>>
                          = <<centre[1] - back * heading[1], centre[2] - back * heading[2]>>

\* half way from the centre of the start cell to the centre of the cell above it
C30_Witness ==
    /\ player.is_moving
    /\ CellOf(player) = <<PLAYER_START_COL, PLAYER_START_ROW - 1>>
    /\ <<player.x, player.y>> = <<40 + 5 * 64 + 32, 40 + 3 * 64 + 32 + 32>>

(***************************************************************************)
(* C25.  Every move and every performing action ends by itself.  The       *)
(* number of ticks a busy actor still needs is at most 60, every tick      *)
(* lowers it, no command raises it, and, ticks going on, a busy actor      *)
(* becomes Idle whatever commands are submitted in between.                *)
(***************************************************************************)
TicksLeft(p) ==
    IF p.is_moving
    THEN (Abs(p.target_x - p.x) + Abs(p.target_y - p.y)) \div 8 + 1
    ELSE IF p.is_spinning THEN 30 - p.spin_timer
    ELSE IF p.is_dancing THEN 60 - p.dance_timer
    ELSE 0

C25_BusyActorComesToRest ==
    /\ [](TicksLeft(player) \in 0..60)
    /\ [][ /\ (~Idle(player) /\ _update) => TicksLeft(player') = TicksLeft(player) - 1
           /\ (~Idle(player) /\ ~_update) => TicksLeft(player') <= TicksLeft(player) ]_vars
    /\ (~Idle(player) ~> Idle(player))

\* the last tick of a dance is due, a move typed meanwhile was refused
C25_Witness ==
    /\ player.is_dancing
    /\ player.dance_timer = 59
    /\ Surfaced(MSG_BUSY_PERFORMING)

(***************************************************************************)
(* C26.  In every reachable state the score is a non-negative integer, the *)
(* sum of the values of the collectibles marked collected and the rewards  *)
(* of the challenges marked completed; the collected count is the number   *)
(* of collectibles marked collected; the score is at most 295.             *)
(***************************************************************************)
C26_ScoreIsSumOfAwards ==
    LET collected == {i \in 1..Len(collectibles) : collectibles[i].collected}
        completed == {i \in 1..Len(challenges) : challenges[i].completed}
    IN  /\ score \in Nat
        /\ score = ValueOf(collectibles, collected) + RewardOf(challenges, completed)
        /\ gems_collected = Cardinality(collected)
        /\ score <= 295

\* every gem and every challenge counts in the score
C26_Witness ==
    /\ gems_collected = 7
    /\ challenges_completed = 3
    /\ score = 145 + 150

(***************************************************************************)
(* C27.  In every reachable state the actor's logical grid cell holds no   *)
(* obstacle, and no collectible lies on an obstacle's cell or on the       *)
(* actor's start cell (5,4).                                               *)
(***************************************************************************)
C27_NothingOnObstacles ==
    LET occupied == {<<obstacles[i].grid_col, obstacles[i].grid_row>> : i \in 1..Len(obstacles)}
    IN  /\ CellOf(player) \notin occupied
        /\ \A i \in 1..Len(collectibles) :
               GemCell(collectibles[i]) \notin occupied \cup {<<5, 4>>}

\* the actor beside the rock of (2,3), a move into it just refused
C27_Witness ==
    /\ CellOf(player) = <<3, 3>>
    /\ Surfaced(MSG_BLOCKED_LEFT)

(***************************************************************************)
(* C28.  No pickup is missed.  At the end of every tick no uncollected     *)
(* collectible lies on the actor's logical cell and the current            *)
(* challenge's target is not that cell; and whenever a command takes the   *)
(* actor from a cell to another, the cell it leaves has been checked: it   *)
(* holds no uncollected collectible and is not the current target.  (A     *)
(* reset is not a command: it returns the actor to the start cell and      *)
(* restores every collectible.)                                            *)
(***************************************************************************)
NothingPending(p, gems, chs, idx) ==
    /\ \A i \in 1..Len(gems) : GemCell(gems[i]) = CellOf(p) => gems[i].collected
    /\ idx < Len(chs) => TargetOf(chs[idx + 1]) # CellOf(p)

C28_NoPickupMissed ==
    [][ /\ _update =>
               NothingPending(player', collectibles', challenges', current_challenge_idx')
        /\ (CellOf(player') # CellOf(player) /\ ~_reset_game) =>
               NothingPending(player, collectibles, challenges, current_challenge_idx) ]_vars

\* the actor leaves the cell (1,1), where the tick after its arrival took the ruby
\* and completed the first challenge
C28_Witness ==
    /\ CellOf(player) \in Neighbours(<<1, 1>>)
    /\ player.is_moving
    /\ challenges[1].completed
    /\ collectibles[1].collected
    /\ commands_executed = 8

(***************************************************************************)
(* C29.  The level is completable.  No challenge target and no collectible *)
(* lies on an obstacle or is cut off from the start cell by obstacles and  *)
(* board edges; and from the initial state and from the state after any    *)
(* reset a sequence of commands and ticks, the route Tour, leads to the    *)
(* state with all three challenges completed and all seven collectibles    *)
(* collected, score 295: unless the game is reset again and again, a play  *)
(* along the route ends in that state.                                     *)
(***************************************************************************)
\* the cells a walk from the cells of S reaches without entering an obstacle
RECURSIVE WalkFrom(_)
WalkFrom(S) ==
    LET further == {c : c \in {d \in BoardCells \ ObstacleCells :
                                  d \in S \/ Neighbours(d) \cap S # {}}}
    IN  IF further = S THEN S ELSE WalkFrom(further)

ReachableCells == WalkFrom({<<PLAYER_START_COL, PLAYER_START_ROW>>})

LevelCells ==
    {<<gem_positions[i][1], gem_positions[i][2]>> : i \in 1..Len(gem_positions)}
        \cup {TargetOf(_create_challenges[i]) : i \in 1..Len(_create_challenges)}

AllDone ==
    /\ Len(collectibles) = 7
    /\ \A i \in 1..Len(collectibles) : collectibles[i].collected
    /\ Len(challenges) = 3
    /\ \A i \in 1..Len(challenges) : challenges[i].completed
    /\ score = 295

\* the state _reset_game leaves
JustReset ==
    /\ console_cleared
    /\ commands_executed = 0
    /\ console_out # <<>>

C29_LevelCompletable ==
    /\ [](LevelCells \subseteq ReachableCells)
    /\ ([]<>JustReset \/ <>[]AllDone)

C29_Witness ==
    /\ AllDone
    /\ commands_executed = Len(Tour)
    /\ CellOf(player) = <<11, 8>>

(***************************************************************************)
(* C31.  The successful-move count is the number of move requests accepted *)
(* since the last reset: a command line raises it by one exactly when it   *)
(* is move_up/move_down/move_left/move_right and the move is accepted, and *)
(* every other command line leaves it as it is, a rejected move and        *)
(* hero.say with any message text included.                                *)
(***************************************************************************)
\* the command is a movement command and the actor, Idle and with a free cell of the
\* board beside it in that direction, accepts it
AcceptedMove(command) ==
    \E m \in Moves :
        /\ m.command = command
        /\ Idle(player)
        /\ TargetCell(player, m) \in BoardCells \ ObstacleCells

C31_MovesCountedExactly ==
    [][\A command \in ParseInputs :
           _handle_command(command) =>
               successful_moves' = IF AcceptedMove(command)
                                   THEN successful_moves + 1
                                   ELSE successful_moves]_vars

(***************************************************************************)
(* C32.  The actor's logical grid position changes only in a step where a  *)
(* move is accepted (the actor was Idle, and the new cell is a free cell   *)
(* of the board at Manhattan distance exactly 1) or where reset is         *)
(* executed; a tick never changes it; and a movement command rejected      *)
(* while the actor was busy leaves the whole actor as it was, so nothing   *)
(* is queued that a later step could apply.  A move is requested by a      *)
(* movement command or by a hero.move call evaluated inside the argument   *)
(* of another command; both reach Player._try_move in the command's step.  *)
(***************************************************************************)
ManhattanDistance(a, b) == Abs(a[1] - b[1]) + Abs(a[2] - b[2])

\* a command line is handled in this step
CommandStep == \E command \in ParseInputs : _handle_command(command)

Says(message) == MSG_SAY_PREFIX \o message \o MSG_SAY_SUFFIX

\* the calls of the five methods, each with the text its method returns
QuietCalls ==
    { [command |-> CMD_SAY, result |-> Says(MSG_SAY_DEFAULT)],
      [command |-> CMD_SAY_SINGLE, result |-> Says(<<"h", "i">>)],
      [command |-> CMD_SAY_DOUBLE, result |-> Says(<<"h", "i">>)],
      [command |-> CMD_SAY_INT, result |-> Says(<<"5">>)],
      [command |-> CMD_SAY_TRUE, result |-> Says(TXT_TRUE)],
      [command |-> CMD_SAY_SUM, result |-> Says(<<"2">>)],
      [command |-> CMD_SAY_MOVING, result |-> Says(TXT_MOVING)],
      [command |-> CMD_JUMP, result |-> MSG_JUMP],
      [command |-> CMD_ATTACK, result |-> MSG_ATTACK],
      [command |-> CMD_DEFEND, result |-> MSG_DEFEND],
      [command |-> CMD_COLLECT, result |-> MSG_COLLECT] }

StartCell == <<PLAYER_START_COL, PLAYER_START_ROW>>

AtStart == Idle(player) /\ CellOf(player) = StartCell

C34_FirstMoveRightIsBlocked ==
    [][AtStart =>
           /\ StartCell = <<5, 4>>
           /\ \E i \in 1..Len(obstacles) :
                  obstacles[i] = [grid_col |-> 6, grid_row |-> 4, obstacle_type |-> "crate"]
           /\ \A m \in Moves :
                  _handle_command(m.command) =>
                      IF m.command = CMD_MOVE_RIGHT
                      THEN /\ SurfacedNext(MSG_BLOCKED_RIGHT)
                           /\ player' = player
                           /\ successful_moves' = successful_moves
                      ELSE /\ SurfacedNext(m.moving)
                           /\ CellOf(player') = TargetCell(player, m)
                           /\ player'.is_moving
                           /\ successful_moves' = successful_moves + 1]_vars

\* a spin was cut short by a reset (its timer is left where it stood), and the first
\* command after the reset, hero.move_right(), has just been rejected as blocked
C34_Witness ==
    /\ AtStart
    /\ player.spin_timer > 0
    /\ commands_executed = 1
    /\ Surfaced(MSG_BLOCKED_RIGHT)

(***************************************************************************)
(* C35.  The console command history holds at most 50 entries, the oldest  *)
(* being dropped first, and never contains two equal consecutive entries;  *)
(* submitting a non-blank line appends its stripped text as the newest     *)
(* entry unless it equals the current newest entry, clears the input line  *)
(* and invokes the command callback exactly once with the stripped text.   *)
(***************************************************************************)
\* the history after `command` was submitted, as the claim describes it
HistoryAfter(history, command) ==
    IF history # <<>> /\ history[Len(history)] = command
    THEN history
    ELSE IF Len(history) = 50
    THEN Tail(history) \o <<command>>
    ELSE history \o <<command>>

\* the log line that echoes a submitted command
Echo(command) == OutputLine(<<">>> ">> \o command, "command")

C35_HistoryBoundedAndDeduplicated ==
    /\ [](/\ Len(console.command_history) <= 50
          /\ \A i \in 1..(Len(console.command_history) - 1) :
                 console.command_history[i] # console.command_history[i + 1])
    /\ [][(_execute_command /\ strip(console.input_text) # <<>>) =>
              /\ console'.command_history =
                     HistoryAfter(console.command_history, strip(console.input_text))
              /\ console'.input_text = <<>>
              /\ commands_executed' = commands_executed + 1
              /\ on_command(strip(console.input_text), <<Echo(strip(console.input_text))>>)]_vars

\* the 51st entry, help, has just been appended, and the first entry of the session,
\* which was help as well, has been dropped for it: the oldest entry is now a hint
C35_Witness ==
    /\ Len(console.command_history) = 50
    /\ console.command_history[1] = <<"h", "i", "n", "t">>
    /\ console.command_history[50] = CMD_HELP
    /\ console.input_text = <<>>
    /\ console_out # <<>>
    /\ console_out[1] = Echo(CMD_HELP)

(***************************************************************************)
(* C36.  History browsing is a bounded round trip: history_index always    *)
(* stays within [-1, len(command_history) - 1]; Up at the oldest entry and *)
(* Down when not browsing change nothing; and from a non-browsing state    *)
(* with input text t, pressing Up k times followed by Down k times         *)
(* (1 <= k <= history length) ends not browsing with the input text equal  *)
(* to t again.                                                             *)
(***************************************************************************)
\* the console after Up was pressed k times, and after Down was pressed k times
RECURSIVE UpTimes(_, _)
UpTimes(c, k) == IF k = 0 THEN c ELSE UpTimes(_navigate_history_up(c), k - 1)

RECURSIVE DownTimes(_, _)
DownTimes(c, k) == IF k = 0 THEN c ELSE DownTimes(_navigate_history_down(c), k - 1)

Browsing(c) == c.history_index # -1

C36_HistoryBrowsingRoundTrip ==
    /\ [](/\ -1 <= console.history_index
          /\ console.history_index <= Len(console.command_history) - 1
          /\ ~Browsing(console) =>
                 \A k \in 1..Len(console.command_history) :
                     /\ UpTimes(console, k).history_index = k - 1
                     /\ ~Browsing(DownTimes(UpTimes(console, k), k))
                     /\ DownTimes(UpTimes(console, k), k).input_text = console.input_text)
    /\ [][/\ (/\ handle_event("K_UP")
              /\ console.history_index = Len(console.command_history) - 1)
                 => (console' = console)
          /\ (handle_event("K_DOWN") /\ ~Browsing(console)) => (console' = console)]_vars

\* with two entries in the history and a text on the input line the learner has
\* browsed and come back: the text that was saved stands on the input line again
C36_Witness ==
    /\ Len(console.command_history) = 2
    /\ ~Browsing(console)
    /\ console.temp_input # <<>>
    /\ console.temp_input \notin KeyLines
    /\ console.input_text = console.temp_input

(***************************************************************************)
(* C37.  After any sequence of console key events (printable characters,   *)
(* Backspace, Delete, Left, Right, Home, End, Up, Down, Enter) the cursor  *)
(* position satisfies 0 <= cursor_pos <= len(input_text).                  *)
(***************************************************************************)
C37_CursorWithinInput ==
    /\ 0 <= console.cursor_pos
    /\ console.cursor_pos <= Len(console.input_text)

\* an entry of the history was fetched with Up and is being edited: the cursor stands
\* inside the text, which is no longer the entry
C37_Witness ==
    /\ Browsing(console)
    /\ console.input_text # history_entry(console.command_history, console.history_index)
    /\ 0 < console.cursor_pos
    /\ console.cursor_pos < Len(console.input_text)

====
